---------------------------- MODULE Spec2Model ----------------------------
(***************************************************************************)
(* A model of EGFRDSimulator (src/egfrd.py): the event loop, the domain    *)
(* table, the shell container and the event scheduler.                     *)
(*                                                                         *)
(* Geometry is one-dimensional and periodic: positions are integers modulo *)
(* WorldSize, lengths are integer multiples of one length unit and a       *)
(* quotient is rounded down to the unit.  Times are integers; Inf stands   *)
(* for numpy.inf.  Every random draw of the program is a nondeterministic  *)
(* choice among the values the drawn distribution allows.                  *)
(***************************************************************************)
EXTENDS Integers, Sequences, FiniteSets, TLC

VARIABLES
    t,                    \* self.t
    dt,                   \* self.dt
    step_counter,         \* self.step_counter
    zero_steps,           \* self.zero_steps
    rejected_moves,       \* self.rejected_moves
    reaction_events,      \* self.reaction_events
    is_dirty,             \* self.is_dirty
    user_max_shell_size,  \* self.user_max_shell_size
    domains,              \* self.domains: domain id -> domain
    containers,           \* self.containers: shell id -> shell
    scheduler,            \* self.scheduler: event id -> [time, data]
    event_id_generator,   \* the scheduler's next event id
    domain_id_generator,  \* self.domain_id_generator
    shell_id_generator,   \* self.shell_id_generator
    particles,            \* self.world: particle id -> particle
    particle_id_generator,\* the world's next particle id
    network_rules,        \* self.network_rules (fixed during a run)
    dissociation_retry_moves, \* self.dissociation_retry_moves (fixed)
    ret,                  \* the last call of the driver and how it returned
    ncalls,               \* number of driver calls made so far
    hdf5                  \* the HDF5 file of the ecell4 package and its last call

vars == <<t, dt, step_counter, zero_steps, rejected_moves, reaction_events,
          is_dirty, user_max_shell_size, domains, containers, scheduler,
          event_id_generator, domain_id_generator, shell_id_generator,
          particles, particle_id_generator, network_rules,
          dissociation_retry_moves, ret, ncalls, hdf5>>

-----------------------------------------------------------------------------
(* Bounds of the model. *)

\* Largest number of driver calls (initialize, step, stop, ...) in a run.
MaxCalls == 4

\* Largest finite waiting time a domain draws.
MaxDt == 2

-----------------------------------------------------------------------------
(* Program constants. *)

\* numpy.inf
Inf == 1000000

\* self.SINGLE_SHELL_FACTOR = 1.1, as a fraction of ten.
SINGLE_SHELL_FACTOR_TENTHS == 11

\* self.MULTI_SHELL_FACTOR = 0.05, as a fraction of twenty.
MULTI_SHELL_FACTOR_TWENTIETHS == 1

\* world.world_size and the cell size of the shell matrix (world_size / 3).
WorldSize == 600
CellSize == 200


-----------------------------------------------------------------------------
(* Species of the model world: radius and diffusion coefficient.           *)

Species == {1, 2, 3, 4}

\* species.radius
SpeciesRadius(sid) == CASE sid = 3 -> 30 [] OTHER -> 20

\* species.D
SpeciesD(sid) == CASE sid = 4 -> 0 [] OTHER -> 1

\* math.sqrt on the diffusion coefficients of the model world.
Sqrt(D) == CASE D = 0 -> 0 [] D = 1 -> 1 [] D = 4 -> 2 [] OTHER -> 1

-----------------------------------------------------------------------------
(* Arithmetic and geometry.                                                *)

Abs(x) == IF x >= 0 THEN x ELSE -x

Min2(a, b) == IF a <= b THEN a ELSE b

Max2(a, b) == IF a >= b THEN a ELSE b

\* Floating point addition with numpy.inf.
Plus(a, b) == IF a >= Inf \/ b >= Inf THEN Inf ELSE a + b

\* x / SAFETY with SAFETY = 1 + 1e-5, rounded down to the length unit.
DivSafety(x) == IF x >= Inf THEN Inf ELSE IF x > 0 THEN x - 1 ELSE x

\* world.apply_boundary
apply_boundary(p) == p % WorldSize

\* world.distance between two positions (periodic).
distance(a, b) ==
    LET d == Abs(apply_boundary(a) - apply_boundary(b))
    IN  Min2(d, WorldSize - d)

\* world.distance(shell.shape, pos): distance from pos to the shell surface.
shell_distance(shell, pos) == distance(shell.pos, pos) - shell.radius

\* Restriction of a function (del f[k]).
Remove(f, k) == [x \in (DOMAIN f) \ {k} |-> f[x]]

\* Sequence of the elements of a finite set of integers, ascending.
RECURSIVE SortedSeq(_)
SortedSeq(X) ==
    IF X = {} THEN << >>
    ELSE LET m == CHOOSE x \in X : \A y \in X : x <= y
         IN  <<m>> \o SortedSeq(X \ {m})

\* The elements of a sequence, as a set.
Range(s) == {s[i] : i \in 1..Len(s)}

\* uniq(): the sequence without repeated elements, first occurrences kept.
RECURSIVE uniq(_)
uniq(s) ==
    IF s = << >> THEN << >>
    ELSE LET r == uniq(SubSeq(s, 1, Len(s) - 1))
         IN  IF s[Len(s)] \in Range(r) THEN r ELSE Append(r, s[Len(s)])

-----------------------------------------------------------------------------
(* The simulator as one record, and its installation as the next state.    *)

\* What a handler reports about its own run, for the driver's record:
\* the domain the step fired and its event, whether a reaction found no
\* space, the Single whose reaction was rejected (0 for none), the number
\* of placement attempts of a two-product reaction, the number of products
\* of the rule drawn (-1 for no rule) and what form_pair_or_multi formed.
NoInfo ==
    [fired |-> "none", event_type |-> "none", did |-> 0,
     nospace |-> FALSE, rejected |-> 0, attempts |-> 0, products |-> -1,
     formed |-> "none", pair |-> [tried |-> FALSE],
     multi |-> [tried |-> FALSE], handed |-> << >>,
     added |-> << >>, depth |-> 0, max_depth |-> 0, merged |-> << >>,
     stepped |-> [kind |-> "none"], bursts |-> << >>,
     pair_bursts |-> << >>, intruders |-> [list |-> << >>],
     restore |-> [tried |-> FALSE], timing |-> "none",
     initialized |-> [done |-> FALSE]]

Sim ==
    [t |-> t, dt |-> dt, step_counter |-> step_counter,
     zero_steps |-> zero_steps, rejected_moves |-> rejected_moves,
     reaction_events |-> reaction_events, is_dirty |-> is_dirty,
     user_max_shell_size |-> user_max_shell_size, domains |-> domains,
     containers |-> containers, scheduler |-> scheduler,
     event_id_generator |-> event_id_generator,
     domain_id_generator |-> domain_id_generator,
     shell_id_generator |-> shell_id_generator,
     particles |-> particles,
     particle_id_generator |-> particle_id_generator,
     network_rules |-> network_rules,
     dissociation_retry_moves |-> dissociation_retry_moves,
     err |-> "none", bursted |-> << >>, info |-> NoInfo]

Install(S) ==
    /\ t' = S.t
    /\ dt' = S.dt
    /\ step_counter' = S.step_counter
    /\ zero_steps' = S.zero_steps
    /\ rejected_moves' = S.rejected_moves
    /\ reaction_events' = S.reaction_events
    /\ is_dirty' = S.is_dirty
    /\ user_max_shell_size' = S.user_max_shell_size
    /\ domains' = S.domains
    /\ containers' = S.containers
    /\ scheduler' = S.scheduler
    /\ event_id_generator' = S.event_id_generator
    /\ domain_id_generator' = S.domain_id_generator
    /\ shell_id_generator' = S.shell_id_generator
    /\ particles' = S.particles
    /\ particle_id_generator' = S.particle_id_generator
    /\ network_rules' = S.network_rules
    /\ dissociation_retry_moves' = S.dissociation_retry_moves

\* An exception raised inside a handler: the rest of the handler is skipped.
Raise(S, e) == [S EXCEPT !.err = e]

-----------------------------------------------------------------------------
(* Event scheduler (_gfrd.EventScheduler).                                 *)

\* scheduler.add(DomainEvent(time, domain)): the new event id.
scheduler_add(S, time, did) ==
    [S EXCEPT !.scheduler = (S.event_id_generator :> [time |-> time, data |-> did])
                               @@ S.scheduler,
              !.event_id_generator = S.event_id_generator + 1]

\* scheduler.update((event_id, DomainEvent(time, domain)))
scheduler_update(S, eid, time, did) ==
    IF eid \in DOMAIN S.scheduler
    THEN [S EXCEPT !.scheduler = (eid :> [time |-> time, data |-> did])
                                     @@ S.scheduler]
    ELSE Raise(S, "KeyError")

\* del scheduler[event_id]
scheduler_remove(S, eid) ==
    IF eid \in DOMAIN S.scheduler
    THEN [S EXCEPT !.scheduler = Remove(S.scheduler, eid)]
    ELSE Raise(S, "KeyError")

\* scheduler.top: the id of the earliest event, the oldest one among equals.
scheduler_top(sch) ==
    CHOOSE e \in DOMAIN sch :
        \A f \in DOMAIN sch :
            \/ sch[e].time < sch[f].time
            \/ sch[e].time = sch[f].time /\ e <= f

-----------------------------------------------------------------------------
(* The world (particle container) and the reaction rules.                  *)

\* Particle(position, radius, D, sid)
Particle(pos, sid) ==
    [pos |-> pos, radius |-> SpeciesRadius(sid), D |-> SpeciesD(sid), sid |-> sid]

\* world.check_overlap((pos, radius), ignore...): some particle not in
\* ignore lies closer to pos than radius.
check_overlap(S, pos, radius, ignore) ==
    \E p \in (DOMAIN S.particles) \ ignore :
        distance(pos, S.particles[p].pos) - S.particles[p].radius < radius

\* world.new_particle(sid, pos); the new particle's id is the generator's
\* value before the call.
new_particle(S, sid, pos) ==
    [S EXCEPT !.particles = (S.particle_id_generator :> Particle(pos, sid))
                               @@ S.particles,
              !.particle_id_generator = S.particle_id_generator + 1]

\* world.remove_particle(pid)
remove_particle(S, pid) ==
    IF pid \in DOMAIN S.particles
    THEN [S EXCEPT !.particles = Remove(S.particles, pid)]
    ELSE Raise(S, "KeyError")

\* world.update_particle((pid, particle))
update_particle(S, pid, p) ==
    [S EXCEPT !.particles = (pid :> p) @@ S.particles]

\* network_rules.query_reaction_rule(sid): the products of each rule.
query_reaction_rule(S, sid) == S.network_rules.uni[sid]

\* network_rules.query_reaction_rule(sid1, sid2): one rule for every pair
\* of species (set_all_repulsive gives k = 0 and no products).
query_pair_rule(S, sid1, sid2) == S.network_rules.bi

-----------------------------------------------------------------------------
(* Shell container (_gfrd.SphericalShellContainer).                        *)

\* The shell ids of a container ordered by the distance of the shell
\* surface from pos, ascending; the older shell first among equals.
RECURSIVE SortByDistance(_, _, _)
SortByDistance(c, X, pos) ==
    IF X = {} THEN << >>
    ELSE LET m == CHOOSE x \in X : \A y \in X :
                      \/ shell_distance(c[x], pos) < shell_distance(c[y], pos)
                      \/ /\ shell_distance(c[x], pos) = shell_distance(c[y], pos)
                         /\ x <= y
         IN  <<m>> \o SortByDistance(c, X \ {m}, pos)

\* container.get_neighbors(pos)
get_neighbors(S, pos) == SortByDistance(S.containers, DOMAIN S.containers, pos)

\* container.get_neighbors_within_radius(pos, radius)
get_neighbors_within_radius(S, pos, radius) ==
    SortedSeq({x \in DOMAIN S.containers :
                  shell_distance(S.containers[x], pos) < radius})

\* self.get_max_shell_size()
get_max_shell_size(S) ==
    Min2(DivSafety(CellSize \div 2), S.user_max_shell_size)

\* obj.shell_list, as a function from shell id to shell.
shell_list(obj) ==
    IF obj.kind = "Multi" THEN obj.shell_list ELSE (obj.shell_id :> obj.shell)

\* obj.multiplicity
multiplicity(obj) ==
    CASE obj.kind = "Single" -> 1
      [] obj.kind = "Pair" -> 2
      [] OTHER -> Cardinality(DOMAIN obj.particles)

\* self.move_shell(shell_id_shell_pair)
move_shell(S, sid, shell) ==
    [S EXCEPT !.containers = (sid :> shell) @@ S.containers]

\* self.remove_domain(obj)
remove_domain(S, obj) ==
    IF obj.domain_id \notin DOMAIN S.domains THEN Raise(S, "KeyError")
    ELSE IF ~ (DOMAIN shell_list(obj) \subseteq DOMAIN S.containers)
         THEN Raise([S EXCEPT !.domains = Remove(S.domains, obj.domain_id)],
                    "KeyError")
    ELSE [S EXCEPT !.domains = Remove(S.domains, obj.domain_id),
                   !.containers = [x \in (DOMAIN S.containers)
                                          \ DOMAIN shell_list(obj)
                                   |-> S.containers[x]]]

\* self.get_neighbors_within_radius_no_sort(pos, radius, ignore): the ids of
\* the domains with a shell within radius, each once.
get_neighbors_within_radius_no_sort(S, pos, radius, ignore) ==
    LET result == get_neighbors_within_radius(S, pos, radius)
        dids == uniq([i \in 1..Len(result) |-> S.containers[result[i]].did])
    IN  SelectSeq(dids, LAMBDA d : d \notin ignore)

\* self.get_intruders(position, radius, ignore)
get_intruders(S, position, radius, ignore) ==
    LET nb == get_neighbors(S, position)
        d(i) == shell_distance(S.containers[nb[i]], position)
        beyond == {i \in 1..Len(nb) : d(i) > radius}
        first == IF beyond = {} THEN Len(nb) + 1
                 ELSE CHOOSE i \in beyond : \A j \in beyond : i <= j
        dids == uniq([i \in 1..(first - 1) |-> S.containers[nb[i]].did])
    IN  [intruders |-> SelectSeq(dids, LAMBDA x : x \notin ignore),
         closest |-> IF beyond = {} THEN 0 ELSE S.containers[nb[first]].did,
         closest_distance |-> IF beyond = {} THEN Inf ELSE d(first)]

\* self.get_closest_obj(pos, ignore): the world of the model has no surface,
\* get_closest_surface returns (None, inf).  Domain id 0 stands for None.
get_closest_obj(S, pos, ignore) ==
    LET nb == get_neighbors(S, pos)
        ok == {i \in 1..Len(nb) : S.containers[nb[i]].did \notin ignore}
        first == CHOOSE i \in ok : \A j \in ok : i <= j
    IN  IF ok = {} THEN [closest |-> 0, distance |-> Inf]
        ELSE [closest |-> S.containers[nb[first]].did,
              distance |-> shell_distance(S.containers[nb[first]], pos)]

\* self.obj_distance(pos, obj)
obj_distance(pos, obj) ==
    LET ds == {shell_distance(shell_list(obj)[x], pos) : x \in DOMAIN shell_list(obj)}
    IN  CHOOSE m \in ds : \A y \in ds : m <= y

-----------------------------------------------------------------------------
(* Single domains (single.py) and the simulator's operations on them.      *)

\* NonInteractionSingle(domain_id, pid_particle_pair, shell_id, ...): the
\* shell starts with the particle's radius.
Single(did, pid, particle, sid, now) ==
    [kind |-> "Single", domain_id |-> did, pid |-> pid, particle |-> particle,
     shell_id |-> sid,
     shell |-> [did |-> did, pos |-> particle.pos, radius |-> particle.radius],
     dt |-> 0, last_time |-> now, event_type |-> "SINGLE_ESCAPE",
     event_id |-> 0]

\* Single.initialize(t): reset() and last_time = t.
single_initialize(single, now) ==
    [single EXCEPT !.dt = 0, !.event_type = "SINGLE_ESCAPE", !.last_time = now]

\* Single.is_reset()
is_reset(single) == single.dt = 0 /\ single.event_type = "SINGLE_ESCAPE"

\* Single.get_mobility_radius()
get_mobility_radius(single) == single.shell.radius - single.particle.radius

\* The finite waiting times a Green's function or a rate draws.
DrawnTimes == 1..MaxDt

\* Single.determine_next_event(): the minimum of the escape time and the
\* reaction time, with the event that wins.
determine_next_event(S, single) ==
    LET escapes == IF single.particle.D = 0 THEN {Inf}
                   ELSE IF get_mobility_radius(single) <= 0 THEN {0}
                   ELSE DrawnTimes
        reactions == IF query_reaction_rule(S, single.particle.sid) = {}
                     THEN {Inf} ELSE DrawnTimes
    IN  {[dt |-> e, event_type |-> "SINGLE_ESCAPE"] :
            e \in {x \in escapes : \E r \in reactions : x <= r}}
        \cup
        {[dt |-> r, event_type |-> "SINGLE_REACTION"] :
            r \in {x \in reactions : \E e \in escapes : x <= e}}

\* Single.draw_new_position(dt, event_type): the particle's position plus a
\* displacement of the mobility radius on an escape, and of a drawn length
\* up to it otherwise.
draw_new_position(single, d, event_type) ==
    LET oldpos == single.particle.pos
        a == get_mobility_radius(single)
    IN  IF single.particle.D = 0 \/ a <= 0 THEN {oldpos}
        ELSE IF event_type = "SINGLE_ESCAPE" THEN {oldpos - a, oldpos + a}
        ELSE IF d = 0 THEN {oldpos}
        ELSE {oldpos - a, oldpos, oldpos + a}

\* Single.draw_reaction_rule(): one of the rules of the species.
draw_reaction_rule(S, single) == query_reaction_rule(S, single.particle.sid)

\* self.create_single(pid_particle_pair); the new Single's domain id is the
\* generator's value before the call.
create_single(S, pid) ==
    LET did == S.domain_id_generator
        sid == S.shell_id_generator
        single == Single(did, pid, S.particles[pid], sid, S.t)
    IN  [S EXCEPT !.domain_id_generator = did + 1,
                  !.shell_id_generator = sid + 1,
                  !.containers = (sid :> single.shell) @@ S.containers,
                  !.domains = (did :> single) @@ S.domains]

\* self.add_single_event(single)
add_single_event(S, did) ==
    LET S1 == scheduler_add(S, Plus(S.t, S.domains[did].dt), did)
    IN  [S1 EXCEPT !.domains[did].event_id = S.event_id_generator]

\* self.add_pair_event(pair)
add_pair_event(S, did) ==
    LET S1 == scheduler_add(S, Plus(S.t, S.domains[did].dt), did)
    IN  [S1 EXCEPT !.domains[did].event_id = S.event_id_generator]

\* self.add_multi_event(multi)
add_multi_event(S, did) ==
    LET S1 == scheduler_add(S, Plus(S.t, S.domains[did].dt), did)
    IN  [S1 EXCEPT !.domains[did].event_id = S.event_id_generator]

\* self.remove_event(event)
remove_event(S, obj) == scheduler_remove(S, obj.event_id)

\* self.update_single_event(t, single)
update_single_event(S, time, did) ==
    scheduler_update(S, S.domains[did].event_id, time, did)

\* self.update_multi_event(t, multi)
update_multi_event(S, time, did) ==
    scheduler_update(S, S.domains[did].event_id, time, did)

\* move_single_shell that changes the shell held by the domain and does not
\* write it into the container.
move_single_shell_in_place(S, did, position, radius) ==
    [S EXCEPT !.domains[did].shell =
        [did |-> did, pos |-> position, radius |-> radius]]

\* self.move_single_shell(single, position, radius): a new shell under the
\* same shell id and domain id, stored in the Single and in the container.
move_single_shell(S, did, position, radius) ==
    LET single == S.domains[did]
        shell == [did |-> did, pos |-> position, radius |-> radius]
    IN  move_shell([S EXCEPT !.domains[did].shell = shell],
                   single.shell_id, shell)

\* self.move_single_particle(single, position)
move_single_particle(S, did, position) ==
    LET single == S.domains[did]
        p == [single.particle EXCEPT !.pos = position]
    IN  update_particle([S EXCEPT !.domains[did].particle = p], single.pid, p)

\* self.move_single(single, position, radius)
move_single(S, did, position, radius) ==
    move_single_particle(move_single_shell(S, did, position, radius),
                         did, position)

\* self.propagate_single(single)
propagate_single(S, did) ==
    LET single == S.domains[did]
    IN  UNION {
          LET newpos == apply_boundary(np)
          IN  IF check_overlap(S, newpos, single.particle.radius, {single.pid})
              THEN {Raise(S, "RuntimeError")}
              ELSE IF single.event_type = "SINGLE_REACTION"
              THEN {move_single_particle(S, did, newpos)}
              ELSE {move_single(
                      [S EXCEPT !.domains[did] = single_initialize(single, S.t)],
                      did, newpos, single.particle.radius)}
          : np \in draw_new_position(single, single.dt, single.event_type)}

\* What one call of burst_single did: the Single before and after, the
\* shells and the events of its domain after, and the particle in the world.
burst_seen(S, S3, did) ==
    [before |-> S.domains[did], t |-> S.t, raised |-> S3.err,
     after |-> IF did \in DOMAIN S3.domains THEN S3.domains[did]
               ELSE [kind |-> "none"],
     shells |-> [x \in {y \in DOMAIN S3.containers :
                           S3.containers[y].did = did} |-> S3.containers[x]],
     entries |-> [e \in {y \in DOMAIN S3.scheduler :
                            S3.scheduler[y].data = did}
                  |-> S3.scheduler[e].time],
     events_before |-> DOMAIN S.scheduler,
     events_after |-> DOMAIN S3.scheduler,
     particle |-> S3.particles[S.domains[did].pid]]

\* The body of burst_single.
burst_single_checked(S, did) ==
    LET single == S.domains[did]
    IN  IF ~ (S.t >= single.last_time
              /\ S.t <= Plus(single.last_time, single.dt))
        THEN {Raise([S EXCEPT !.info.timing = "burst_single"],
                    "AssertionError")}
        ELSE UNION {
               IF S2.err # "none" THEN {S2}
               ELSE IF distance(S2.domains[did].particle.pos, single.shell.pos)
                          > single.shell.radius - single.particle.radius
               THEN {Raise(S2, "AssertionError")}
               ELSE {update_single_event(S2, S2.t, did)}
             : S2 \in propagate_single(
                         [S EXCEPT !.domains[did].dt = S.t - single.last_time,
                                   !.domains[did].event_type = "BURST"], did)}

\* burst_single that leaves the event of the Single where it was.
burst_single_no_update(S, did) ==
    {[S3 EXCEPT !.info.bursts = Append(@, burst_seen(S, S3, did))]
     : S3 \in propagate_single(
                 [S EXCEPT !.domains[did].dt = S.t - S.domains[did].last_time,
                           !.domains[did].event_type = "BURST"], did)}

\* self.burst_single(single)
burst_single(S, did) ==
    {[S3 EXCEPT !.info.bursts = Append(@, burst_seen(S, S3, did))]
     : S3 \in burst_single_checked(S, did)}

-----------------------------------------------------------------------------
(* Consistency check of one domain (check_obj), used in assertions.        *)

\* The part of check_obj for one shell of the domain.
check_shell(S, did, shell) ==
    /\ shell.radius <= S.user_max_shell_size
    /\ shell.radius <= get_max_shell_size(S)
    /\ get_closest_obj(S, shell.pos, {did}).distance - shell.radius >= 0

\* self.check_obj(obj): every shell is within the maximum shell sizes and
\* does not reach into the closest shell of another domain.
check_obj(S, obj) ==
    \A x \in DOMAIN shell_list(obj) :
        check_shell(S, obj.domain_id, shell_list(obj)[x])

-----------------------------------------------------------------------------
(* Pair domains (pair.py) and the simulator's operations on them.          *)

\* Pair.determine_next_event(r0): the earliest of the centre-of-mass escape,
\* the inter-particle event and the single reactions of the two particles.
pair_determine_next_event(S, pair) ==
    {[dt |-> d, event_type |-> e, reactingsingle |-> 0] :
        d \in DrawnTimes, e \in {"COM_ESCAPE", "IV_EVENT"}}
    \cup
    {[dt |-> d, event_type |-> "SINGLE_REACTION", reactingsingle |-> 1] :
        d \in {x \in DrawnTimes :
                 query_reaction_rule(S, pair.single1.particle.sid) # {}}}
    \cup
    {[dt |-> d, event_type |-> "SINGLE_REACTION", reactingsingle |-> 2] :
        d \in {x \in DrawnTimes :
                 query_reaction_rule(S, pair.single2.particle.sid) # {}}}

\* Pair.draw_iv_event_type(r0): a reaction needs a positive rate.
draw_iv_event_type(pair) ==
    {"IV_ESCAPE"} \cup (IF pair.rt.k > 0 THEN {"IV_REACTION"} ELSE {})

\* The displacement from a to b of smallest size (world.cyclic_transpose).
cyclic_delta(a, b) ==
    IF 2 * apply_boundary(b - a) <= WorldSize
    THEN apply_boundary(b - a)
    ELSE apply_boundary(b - a) - WorldSize

\* The two new positions of a Pair whose first particle lies in direction
\* o of the centre of mass and whose particles may go a1 and a2 from it.
pair_positions(com, o, a1, a2, touching, event_type, pos1, pos2) ==
    CASE event_type = "IV_ESCAPE" -> {<<com + o * a1, com - o * a2>>}
      [] event_type = "COM_ESCAPE" ->
            {<<com + o * a1, com + o * a1 - o * touching>>,
             <<com - o * a2 + o * touching, com - o * a2>>}
      [] OTHER -> {<<pos1, pos2>>, <<com + o * a1, com - o * a2>>}

\* Pair.draw_new_positions(dt, r0, old_iv, event_type): two positions inside
\* the shell that do not overlap; the particles at the largest separation on
\* an inter-particle escape, next to each other at the shell on a
\* centre-of-mass escape, either or where they were on a burst.
draw_new_positions(pair, event_type) ==
    pair_positions(pair.com,
                   IF cyclic_delta(pair.com, pair.single1.particle.pos) <= 0
                   THEN -1 ELSE 1,
                   pair.shell.radius - pair.single1.particle.radius,
                   pair.shell.radius - pair.single2.particle.radius,
                   pair.single1.particle.radius + pair.single2.particle.radius + 1,
                   event_type,
                   pair.single1.particle.pos, pair.single2.particle.pos)

\* self.check_pair_pos(pair, pos1, pos2, com, radius)
check_pair_pos(pair, pos1, pos2, com, radius) ==
    /\ distance(pos1, pos2)
          > pair.single1.particle.radius + pair.single2.particle.radius
    /\ distance(com, pos1) + pair.single1.particle.radius <= radius
    /\ distance(com, pos2) + pair.single2.particle.radius <= radius

\* The end of propagate_pair: the Pair is removed and its two Singles are
\* put back under their own domain ids and shell ids, at the new positions.
\* The end of propagate_pair with shells one unit wider than the particles
\* and without the final checks.
put_back_singles_wide(S, pair, s1, s2, newpos1, newpos2) ==
    UNION {
      IF S1.err # "none" THEN {S1}
      ELSE {move_single(
              move_single(
                [S1 EXCEPT !.domains =
                    (s1.domain_id :> single_initialize(s1, S.t))
                    @@ (s2.domain_id :> single_initialize(s2, S.t))
                    @@ S1.domains],
                s1.domain_id, newpos1, s1.particle.radius + 1),
              s2.domain_id, newpos2, s2.particle.radius + 1)}
      : S1 \in {remove_domain(S, pair)}}

put_back_singles(S, pair, s1, s2, newpos1, newpos2) ==
    UNION {
      IF S1.err # "none" THEN {S1}
      ELSE IF \/ s1.domain_id \in DOMAIN S1.domains
              \/ s2.domain_id \in DOMAIN S1.domains
      THEN {Raise(S1, "AssertionError")}
      ELSE {IF /\ check_obj(S4, S4.domains[s1.domain_id])
               /\ check_obj(S4, S4.domains[s2.domain_id])
            THEN S4 ELSE Raise(S4, "AssertionError")
            : S4 \in {move_single(
                        move_single(
                          [S1 EXCEPT !.domains =
                              (s1.domain_id :> single_initialize(s1, S.t))
                              @@ (s2.domain_id :> single_initialize(s2, S.t))
                              @@ S1.domains],
                          s1.domain_id, newpos1, s1.particle.radius),
                        s2.domain_id, newpos2, s2.particle.radius)}}
      : S1 \in {remove_domain(S, pair)}}

\* self.propagate_pair(pair, dt, event_type)
propagate_pair(S, pdid, d, event_type) ==
    UNION {
      IF d > 0 /\ (\/ check_overlap(S, apply_boundary(np[1]),
                                    pair.single1.particle.radius,
                                    {pair.single1.pid, pair.single2.pid})
                   \/ check_overlap(S, apply_boundary(np[2]),
                                    pair.single2.particle.radius,
                                    {pair.single1.pid, pair.single2.pid})
                   \/ ~ check_pair_pos(pair, apply_boundary(np[1]),
                                       apply_boundary(np[2]),
                                       pair.com, pair.shell.radius))
      THEN {Raise(S, "AssertionError")}
      ELSE put_back_singles(S, pair, pair.single1, pair.single2,
                            apply_boundary(np[1]), apply_boundary(np[2]))
      : pair \in {S.domains[pdid]},
        np \in IF d > 0 THEN draw_new_positions(S.domains[pdid], event_type)
               ELSE {<<S.domains[pdid].single1.particle.pos,
                       S.domains[pdid].single2.particle.pos>>}}

\* self.burst_pair(pair)
burst_pair(S, pdid) ==
    IF ~ (S.t >= S.domains[pdid].last_time
          /\ S.t <= Plus(S.domains[pdid].last_time, S.domains[pdid].dt))
    THEN {Raise([S EXCEPT !.info.timing = "burst_pair"], "AssertionError")}
    ELSE propagate_pair(S, pdid, S.t - S.domains[pdid].last_time, "BURST")

-----------------------------------------------------------------------------
(* Breaking up and bursting.                                               *)

\* The loop of break_up_multi: a Single with an event for every particle.
RECURSIVE create_singles(_, _)
create_singles(S, pids) ==
    IF pids = << >> THEN S
    ELSE create_singles(
           add_single_event(create_single(S, Head(pids)), S.domain_id_generator),
           Tail(pids))

\* self.break_up_multi(multi)
break_up_multi(S, multi) ==
    IF remove_domain(S, multi).err # "none" THEN remove_domain(S, multi)
    ELSE create_singles(remove_domain(S, multi),
                        SortedSeq(DOMAIN multi.particles))

\* self.burst_multi(multi)
burst_multi(S, multi) == break_up_multi(S, multi)

\* The list a burst returns, kept with the state it was made in.
Bursted(S, dids) == [S EXCEPT !.bursted = S.bursted \o dids]

\* What is left of one domain after a burst: the domain, its shells in the
\* containers and the times of its events.
left_of(S3, did) ==
    [domain |-> IF did \in DOMAIN S3.domains THEN S3.domains[did]
                ELSE [kind |-> "none"],
     shells |-> [x \in {y \in DOMAIN S3.containers :
                           S3.containers[y].did = did} |-> S3.containers[x]],
     entries |-> [e \in {y \in DOMAIN S3.scheduler :
                            S3.scheduler[y].data = did}
                  |-> S3.scheduler[e].time]]

\* S3 with a record of what the burst of the Pair did, from S to S3.
pair_burst_seen(S, S3, pair) ==
    [S3 EXCEPT !.info.pair_bursts =
        Append(@, [before |-> pair, t |-> S.t, raised |-> S3.err,
                   pair |-> left_of(S3, pair.domain_id),
                   single1 |-> left_of(S3, pair.single1.domain_id),
                   single2 |-> left_of(S3, pair.single2.domain_id),
                   particle1 |-> S3.particles[pair.single1.pid],
                   particle2 |-> S3.particles[pair.single2.pid],
                   shell_ids |-> (DOMAIN S3.containers) \ DOMAIN S.containers,
                   events |-> Cardinality(DOMAIN S3.scheduler)
                                - Cardinality(DOMAIN S.scheduler)])]

\* self.burst_obj(obj); the domains it returns are appended to S.bursted.
burst_obj(S, did) ==
    CASE S.domains[did].kind = "Single" ->
           {IF S1.err # "none" THEN S1 ELSE Bursted(S1, <<did>>)
            : S1 \in burst_single(S, did)}
      [] S.domains[did].kind = "Pair" ->
           {pair_burst_seen(
              S,
              IF S1.err # "none" THEN S1
              ELSE Bursted(
                     remove_event(
                       add_single_event(
                         add_single_event(S1, S.domains[did].single1.domain_id),
                         S.domains[did].single2.domain_id),
                       S.domains[did]),
                     <<S.domains[did].single1.domain_id,
                       S.domains[did].single2.domain_id>>),
              S.domains[did])
            : S1 \in burst_pair(S, did)}
      [] OTHER ->
           {IF S1.err # "none" THEN S1
            ELSE Bursted(remove_event(S1, S.domains[did]),
                         [i \in 1..Cardinality(DOMAIN S.domains[did].particles)
                            |-> S.domain_id_generator + i - 1])
            : S1 \in {burst_multi(S, S.domains[did])}}

\* self.burst_objs(objs)
RECURSIVE burst_objs(_, _)
burst_objs(S, objs) ==
    IF objs = << >> THEN {S}
    ELSE UNION {IF S1.err # "none" THEN {S1} ELSE burst_objs(S1, Tail(objs))
                : S1 \in burst_obj(S, Head(objs))}

\* self.clear_volume(pos, radius, ignore)
clear_volume(S, pos, radius, ignore) ==
    burst_objs(S, get_neighbors_within_radius_no_sort(S, pos, radius, ignore))

\* self.burst_non_multis(neighbors)
RECURSIVE burst_non_multis(_, _)
burst_non_multis(S, neighbors) ==
    IF neighbors = << >> THEN {S}
    ELSE IF S.domains[Head(neighbors)].kind = "Multi"
    THEN burst_non_multis(Bursted(S, <<Head(neighbors)>>), Tail(neighbors))
    ELSE UNION {IF S1.err # "none" THEN {S1}
                ELSE burst_non_multis(S1, Tail(neighbors))
                : S1 \in burst_obj(S, Head(neighbors))}

-----------------------------------------------------------------------------
(* Reactions of a Single.                                                  *)

\* newpos1 and newpos2 of fire_single_reaction: the products of species
\* sid1 and sid2 in contact along direction o, placed by the ratio D1 : D2.
product_positions(oldpos, o, sid1, sid2) ==
    <<apply_boundary(
        oldpos + o * (((SpeciesRadius(sid1) + SpeciesRadius(sid2)) * SpeciesD(sid1))
                        \div (SpeciesD(sid1) + SpeciesD(sid2)))),
      apply_boundary(
        oldpos + o * (((SpeciesRadius(sid1) + SpeciesRadius(sid2)) * SpeciesD(sid1))
                        \div (SpeciesD(sid1) + SpeciesD(sid2)))
               - o * (SpeciesRadius(sid1) + SpeciesRadius(sid2)))>>

\* The retry loop with one attempt too many (range(retries + 1)).
RECURSIVE place_products_one_more(_, _, _, _, _, _)
place_products_one_more(S, single, sid1, sid2, k, retries) ==
    IF k > retries + 1
    THEN {[ok |-> FALSE, attempts |-> k - 1, newpos |-> <<0, 0>>]}
    ELSE UNION {
           IF /\ ~ check_overlap(S, np[1], SpeciesRadius(sid1), {single.pid})
              /\ ~ check_overlap(S, np[2], SpeciesRadius(sid2), {single.pid})
           THEN {[ok |-> TRUE, attempts |-> k, newpos |-> np]}
           ELSE place_products_one_more(S, single, sid1, sid2, k + 1, retries)
           : np \in {product_positions(single.particle.pos, o, sid1, sid2)
                       : o \in {-1, 1}}}

\* The retry loop of fire_single_reaction for two products (for ... else):
\* attempt number k draws a direction; the positions are accepted if neither
\* product overlaps a particle other than the reactant.  The result is the
\* set of [ok, attempts, newpos].
RECURSIVE place_products(_, _, _, _, _, _)
place_products(S, single, sid1, sid2, k, retries) ==
    IF k > retries
    THEN {[ok |-> FALSE, attempts |-> k - 1, newpos |-> <<0, 0>>]}
    ELSE UNION {
           IF /\ ~ check_overlap(S, np[1], SpeciesRadius(sid1), {single.pid})
              /\ ~ check_overlap(S, np[2], SpeciesRadius(sid2), {single.pid})
           THEN {[ok |-> TRUE, attempts |-> k, newpos |-> np]}
           ELSE place_products(S, single, sid1, sid2, k + 1, retries)
           : np \in {product_positions(single.particle.pos, o, sid1, sid2)
                       : o \in {-1, 1}}}

\* world.new_particle, create_single and add_single_event for one product.
add_product(S, sid, pos) ==
    add_single_event(
      create_single(new_particle(S, sid, pos), S.particle_id_generator),
      S.domain_id_generator)

\* The same for two products: both particles, then both Singles, then both
\* events.
add_products(S, sid1, pos1, sid2, pos2) ==
    add_single_event(
      add_single_event(
        create_single(
          create_single(
            new_particle(new_particle(S, sid1, pos1), sid2, pos2),
            S.particle_id_generator),
          S.particle_id_generator + 1),
        S.domain_id_generator),
      S.domain_id_generator + 1)

\* The branch for a rule without products that leaves the particle in the
\* world.
fire_single_reaction0_keep_particle(S, single) == {S}

\* The branch for a rule without products that registers the shell of the
\* reactant again.
fire_single_reaction0_keep_shell(S, single) ==
    {move_shell(remove_particle(S, single.pid), single.shell_id, single.shell)}

\* The branch of fire_single_reaction for a rule without products.
fire_single_reaction0(S, single) == {remove_particle(S, single.pid)}

\* The branch of fire_single_reaction for a rule with one product.
fire_single_reaction1(S, single, rt) ==
    UNION {
      IF S1.err # "none" THEN {S1}
      ELSE IF check_overlap(S1, single.particle.pos, SpeciesRadius(rt[1]),
                            {single.pid})
      THEN {Raise([S1 EXCEPT !.info.nospace = TRUE], "NoSpace")}
      ELSE {IF S2.err # "none" THEN S2
            ELSE add_product(S2, rt[1], single.particle.pos)
            : S2 \in {remove_particle(S1, single.pid)}}
      : S1 \in IF single.particle.radius < SpeciesRadius(rt[1])
               THEN clear_volume(S, single.particle.pos, SpeciesRadius(rt[1]), {})
               ELSE {S}}

\* rad of fire_single_reaction: the radius that is cleared for two products.
two_product_radius(r1, r2, D1, D2) ==
    Max2(((r1 + r2) * D1) \div (D1 + D2) + r1,
         ((r1 + r2) * D2) \div (D1 + D2) + r2)

\* The branch of fire_single_reaction for a rule with two products.
fire_single_reaction2(S, single, rt) ==
    IF SpeciesD(rt[1]) + SpeciesD(rt[2]) = 0
    THEN {Raise(S, "ZeroDivisionError")}
    ELSE UNION {
      IF S1.err # "none" THEN {S1}
      ELSE UNION {
        IF ~ pl.ok
        THEN {Raise([S1 EXCEPT !.info.nospace = TRUE,
                               !.info.attempts = pl.attempts], "NoSpace")}
        ELSE {IF S2.err # "none" THEN S2
              ELSE [add_products(S2, rt[1], pl.newpos[1], rt[2], pl.newpos[2])
                    EXCEPT !.info.attempts = pl.attempts]
              : S2 \in {remove_particle(S1, single.pid)}}
        : pl \in place_products(S1, single, rt[1], rt[2], 1,
                                S1.dissociation_retry_moves)}
      : S1 \in clear_volume(S, single.particle.pos,
                            two_product_radius(SpeciesRadius(rt[1]),
                                               SpeciesRadius(rt[2]),
                                               SpeciesD(rt[1]), SpeciesD(rt[2])),
                            {})}

\* self.fire_single_reaction(single)
fire_single_reaction(S, single) ==
    {IF S1.err # "none" THEN S1
     ELSE [S1 EXCEPT !.reaction_events = S1.reaction_events + 1]
     : S1 \in UNION {
         CASE Len(rt) = 0 ->
                fire_single_reaction0([S EXCEPT !.info.products = 0], single)
           [] Len(rt) = 1 ->
                fire_single_reaction1([S EXCEPT !.info.products = 1], single, rt)
           [] Len(rt) = 2 ->
                fire_single_reaction2([S EXCEPT !.info.products = 2], single, rt)
           [] OTHER ->
                {Raise([S EXCEPT !.info.products = Len(rt)], "RuntimeError")}
         : rt \in draw_reaction_rule(S, single)}}

\* reject_single_reaction without move_shell: the shell is not registered
\* again.
reject_without_move_shell(S, single) ==
    add_single_event(
      [S EXCEPT !.domains = (single.domain_id :> single_initialize(single, S.t))
                               @@ S.domains,
                !.rejected_moves = S.rejected_moves + 1,
                !.info.rejected = single.domain_id],
      single.domain_id)

\* self.reject_single_reaction(single)
reject_single_reaction(S, single) ==
    add_single_event(
      move_shell(
        [S EXCEPT !.domains = (single.domain_id :> single_initialize(single, S.t))
                                 @@ S.domains,
                  !.rejected_moves = S.rejected_moves + 1,
                  !.info.rejected = single.domain_id],
        single.shell_id, single.shell),
      single.domain_id)

\* The same without the except clause: NoSpace is not caught.
try_single_reaction_no_catch(S, single) ==
    UNION {IF S1.err # "none" THEN {S1}
           ELSE fire_single_reaction(S1, single)
           : S1 \in {remove_domain(S, single)}}

\* try: remove_domain(single); fire_single_reaction(single)
\* except NoSpace: reject_single_reaction(single)
try_single_reaction(S, single) ==
    {IF S2.err = "NoSpace"
     THEN reject_single_reaction([S2 EXCEPT !.err = "none"], single)
     ELSE S2
     : S2 \in UNION {IF S1.err # "none" THEN {S1}
                     ELSE fire_single_reaction(S1, single)
                     : S1 \in {remove_domain(S, single)}}}

-----------------------------------------------------------------------------
(* Resizing the shell of a Single.                                         *)

\* self.calculate_single_shell_size(single, closest, distance, shell_distance)
calculate_single_shell_size(single, closest, dist, shell_dist) ==
    IF single.particle.D = 0 THEN single.particle.radius
    ELSE Max2(single.particle.radius,
              Min2((Sqrt(single.particle.D)
                       * (dist - (single.particle.radius + closest.particle.radius)))
                     \div (Sqrt(single.particle.D) + Sqrt(closest.particle.D))
                     + single.particle.radius,
                   DivSafety(shell_dist)))

\* A shell size that ignores the closest domain.
new_shell_size_ignore_closest(S, single, closest, distance_to_shell) ==
    get_max_shell_size(S)

\* The shell size update_single gives the Single.
new_shell_size(S, single, closest, distance_to_shell) ==
    Min2(IF closest # 0 /\ S.domains[closest].kind = "Single"
         THEN calculate_single_shell_size(
                  single, S.domains[closest],
                  distance(single.shell.pos, S.domains[closest].shell.pos),
                  distance_to_shell)
         ELSE Max2(DivSafety(distance_to_shell), single.particle.radius),
         get_max_shell_size(S))

\* self.update_single(single, closest, distance_to_shell)
update_single(S, did, closest, distance_to_shell) ==
    UNION {
      {[S1 EXCEPT !.domains[did].dt = ev.dt,
                  !.domains[did].event_type = ev.event_type,
                  !.domains[did].last_time = S.t]
       : ev \in determine_next_event(S1, S1.domains[did])}
      : S1 \in {move_single_shell(S, did, S.domains[did].shell.pos,
                                  new_shell_size(S, S.domains[did], closest,
                                                 distance_to_shell))}}

-----------------------------------------------------------------------------
(* Forming a Pair.                                                         *)

\* radius * self.SINGLE_SHELL_FACTOR
single_min_shell(radius) == (radius * SINGLE_SHELL_FACTOR_TENTHS) \div 10

\* world.calculate_pair_CoM(pos1, pos2, D1, D2), with apply_boundary.
calculate_pair_CoM(pos1, pos2, D1, D2) ==
    apply_boundary(pos1 + (D1 * cyclic_delta(pos1, pos2)) \div (D1 + D2))

\* SphericalPair(domain_id, com, single1, single2, shell_id, r0, shell_size,
\* rt, surface) after initialize(t).
Pair(did, com, single1, single2, sid, r0, shell_size, rt, now) ==
    [kind |-> "Pair", domain_id |-> did, single1 |-> single1,
     single2 |-> single2, shell_id |-> sid,
     shell |-> [did |-> did, pos |-> com, radius |-> shell_size],
     com |-> com, r0 |-> r0, rt |-> rt, dt |-> 0, last_time |-> now,
     event_type |-> "none", reactingsingle |-> 0, event_id |-> 0]

\* self.create_pair(single1, single2, com, r0, shell_size); the new Pair's
\* domain id is the generator's value before the call.
create_pair(S, single1, single2, com, r0, shell_size) ==
    IF single1.dt # 0 \/ single2.dt # 0 THEN Raise(S, "AssertionError")
    ELSE [S EXCEPT
            !.domain_id_generator = S.domain_id_generator + 1,
            !.shell_id_generator = S.shell_id_generator + 1,
            !.containers =
                (S.shell_id_generator :>
                    [did |-> S.domain_id_generator, pos |-> com,
                     radius |-> shell_size]) @@ S.containers,
            !.domains =
                (S.domain_id_generator :>
                    Pair(S.domain_id_generator, com, single1, single2,
                         S.shell_id_generator, r0, shell_size,
                         query_pair_rule(S, single1.particle.sid,
                                         single2.particle.sid), S.t))
                @@ S.domains]

\* Step 1 and 2 of form_pair, given the minimal shell size and its margin.
pair_limits(S, sigma, D12, r0, com, min_shell_size, shell_size_margin) ==
    [sigma |-> sigma, D12 |-> D12, r0 |-> r0,
     distance_from_sigma |-> r0 - sigma,
     min_shell_size |-> min_shell_size,
     com |-> com,
     min_shell_size_with_margin |-> min_shell_size + shell_size_margin,
     max_shell_size |-> Min2(get_max_shell_size(S),
                             (r0 - sigma) * 100 + sigma + shell_size_margin)]

\* Step 1 of form_pair, given the shell sizes the two particles need.
pair_min_shell(S, radius1, radius2, D12, r0, com, shell_size1, shell_size2) ==
    IF shell_size1 + radius1 * 2 >= shell_size2 + radius2 * 2
    THEN pair_limits(S, radius1 + radius2, D12, r0, com, shell_size1, radius1 * 2)
    ELSE pair_limits(S, radius1 + radius2, D12, r0, com, shell_size2, radius2 * 2)

\* Step 1 and 2 of form_pair, given the distance r0 of the two Singles.
pair_sizes_at(S, p1, p2, pos1, pos2, r0) ==
    pair_min_shell(S, p1.radius, p2.radius, p1.D + p2.D, r0,
                   calculate_pair_CoM(pos1, pos2, p1.D, p2.D),
                   (r0 * p1.D) \div (p1.D + p2.D) + p1.radius,
                   (r0 * p2.D) \div (p1.D + p2.D) + p2.radius)

\* Step 1 and 2 of form_pair: the sizes a Pair of the two Singles needs.
pair_sizes(S, single1, single2) ==
    pair_sizes_at(S, single1.particle, single2.particle,
                  single1.shell.pos, single2.shell.pos,
                  distance(single1.shell.pos, single2.shell.pos))

\* Step 3 of form_pair: the burst Single whose minimal shell is closest to
\* the centre of mass, [closest, distance].
RECURSIVE closest_burst(_, _, _, _)
closest_burst(S, com, burst, best) ==
    IF burst = << >> THEN best
    ELSE closest_burst(S, com, Tail(burst),
           IF /\ S.domains[Head(burst)].kind = "Single"
              /\ distance(com, S.domains[Head(burst)].shell.pos)
                   - single_min_shell(S.domains[Head(burst)].particle.radius)
                 < best.distance
           THEN [closest |-> Head(burst),
                 distance |->
                   distance(com, S.domains[Head(burst)].shell.pos)
                   - single_min_shell(S.domains[Head(burst)].particle.radius)]
           ELSE best)

\* Step 4 of form_pair when the closest domain is the Single cl at distance
\* closest_particle_distance from the centre of mass.
pair_shell_size_single(z, cl, closest_particle_distance, closest_shell_distance) ==
    DivSafety(
      Min2((z.D12 * (closest_particle_distance - z.min_shell_size
                       - cl.particle.radius)) \div (cl.particle.D + z.D12)
              + z.min_shell_size,
           Min2(closest_particle_distance - single_min_shell(cl.particle.radius),
                closest_shell_distance)))

\* Step 4 of form_pair: the shell size the closest domain allows.
pair_shell_size(S, z, c) ==
    IF c.closest # 0 /\ S.domains[c.closest].kind = "Single"
    THEN pair_shell_size_single(
             z, S.domains[c.closest],
             distance(z.com, S.domains[c.closest].particle.pos), c.distance)
    ELSE DivSafety(c.distance)

\* Step 5 of form_pair: shell_size < max(d1 + r1 * f, d2 + r2 * f) * 1.3
singles_are_better(z, single1, single2, shell_size) ==
    /\ shell_size < Inf
    /\ 100 * shell_size <
         13 * Max2(10 * distance(z.com, single1.shell.pos)
                     + SINGLE_SHELL_FACTOR_TENTHS * single1.particle.radius,
                   10 * distance(z.com, single2.shell.pos)
                     + SINGLE_SHELL_FACTOR_TENTHS * single2.particle.radius)

\* schedule_pair without remove_event(single2): the event of the partner
\* stays in the scheduler.
schedule_pair_keep_event(S, single1, single2, z, c, shell_size, pdid) ==
    UNION {
      {IF S4.err # "none" THEN S4
       ELSE [add_pair_event(S4, pdid) EXCEPT !.info.formed = "Pair"]
       : S4 \in {IF S3.err # "none" THEN S3
                 ELSE remove_domain(S3, single2)
                 : S3 \in {remove_domain(
                             [S EXCEPT
                                !.domains[pdid].dt = ev.dt,
                                !.domains[pdid].event_type = ev.event_type,
                                !.domains[pdid].reactingsingle =
                                    ev.reactingsingle],
                             single1)}}}
      : ev \in pair_determine_next_event(S, S.domains[pdid])}

\* The end of step 6 of form_pair, after create_pair: the event of the Pair
\* is drawn, the two Singles are removed and the Pair is scheduled.
schedule_pair(S, single1, single2, z, c, shell_size, pdid) ==
    UNION {
      {IF S5.err # "none" THEN S5
       ELSE IF ~ (/\ c.distance = Inf \/ shell_size < c.distance
                  /\ shell_size >= z.min_shell_size_with_margin
                  /\ shell_size <= z.max_shell_size
                  /\ check_obj(S5, S5.domains[pdid]))
       THEN Raise(S5, "AssertionError")
       ELSE [add_pair_event(S5, pdid) EXCEPT !.info.formed = "Pair"]
       : S5 \in {IF S4.err # "none" THEN S4 ELSE remove_event(S4, single2)
                 : S4 \in {IF S3.err # "none" THEN S3
                           ELSE remove_domain(S3, single2)
                           : S3 \in {remove_domain(
                                       [S EXCEPT
                                          !.domains[pdid].dt = ev.dt,
                                          !.domains[pdid].event_type = ev.event_type,
                                          !.domains[pdid].reactingsingle =
                                              ev.reactingsingle],
                                       single1)}}}}
      : ev \in pair_determine_next_event(S, S.domains[pdid])}

\* Step 6 of form_pair: the Pair is created with the shell size capped.
make_pair(S, single1, single2, z, c, shell_size) ==
    UNION {
      IF S1.err # "none" THEN {S1}
      ELSE schedule_pair(S1, single1, single2, z, c, shell_size,
                         S.domain_id_generator)
      : S1 \in {create_pair(S, single1, single2, z.com, z.r0, shell_size)}}

\* form_pair_sized without the test of the shell size against the minimum
\* with margin.
form_pair_sized_no_squeeze(S, single1, single2, z, c, shell_size) ==
    IF c.distance <= 0 THEN {Raise(S, "AssertionError")}
    ELSE IF /\ c.closest # 0
            /\ S.domains[c.closest].kind = "Single"
            /\ ~ (shell_size < c.distance)
    THEN {Raise(S, "AssertionError")}
    ELSE IF singles_are_better(z, single1, single2, shell_size) THEN {S}
    ELSE make_pair(S, single1, single2, z, c,
                   Min2(shell_size, z.max_shell_size))

\* form_pair_sized without the cap of the shell size at the maximum.
form_pair_sized_uncapped(S, single1, single2, z, c, shell_size) ==
    IF c.distance <= 0 THEN {Raise(S, "AssertionError")}
    ELSE IF /\ c.closest # 0
            /\ S.domains[c.closest].kind = "Single"
            /\ ~ (shell_size < c.distance)
    THEN {Raise(S, "AssertionError")}
    ELSE IF shell_size <= z.min_shell_size_with_margin THEN {S}
    ELSE IF singles_are_better(z, single1, single2, shell_size) THEN {S}
    ELSE make_pair(S, single1, single2, z, c, shell_size)

\* Steps 4 to 6 of form_pair, given the closest domain c and the shell size
\* it allows.
form_pair_sized(S, single1, single2, z, c, shell_size) ==
    IF c.distance <= 0 THEN {Raise(S, "AssertionError")}
    ELSE IF /\ c.closest # 0
            /\ S.domains[c.closest].kind = "Single"
            /\ ~ (shell_size < c.distance)
    THEN {Raise(S, "AssertionError")}
    ELSE IF shell_size <= z.min_shell_size_with_margin THEN {S}
    ELSE IF singles_are_better(z, single1, single2, shell_size) THEN {S}
    ELSE make_pair(S, single1, single2, z, c,
                   Min2(shell_size, z.max_shell_size))

\* Steps 3 to 6 of form_pair, given the closest burst Single b and the
\* closest other domain g.
form_pair_closest(S, single1, single2, z, b, g) ==
    IF b.distance <= z.min_shell_size_with_margin THEN {S}
    ELSE IF g.distance < b.distance
    THEN form_pair_sized(S, single1, single2, z, g, pair_shell_size(S, z, g))
    ELSE form_pair_sized(S, single1, single2, z, b, pair_shell_size(S, z, b))

\* Steps 2 to 6 of form_pair, given the sizes z of step 1.
form_pair_checked(S, single1, single2, burst, z) ==
    IF z.distance_from_sigma < 0 THEN {Raise(S, "AssertionError")}
    ELSE IF z.min_shell_size_with_margin >= z.max_shell_size THEN {S}
    ELSE form_pair_closest(
           S, single1, single2, z,
           closest_burst(S, z.com, burst, [closest |-> 0, distance |-> Inf]),
           get_closest_obj(S, z.com, {single1.domain_id, single2.domain_id}))

\* The tables and the id generators a call may change.
Frame(S) ==
    <<S.domains, S.containers, S.scheduler, S.event_id_generator,
      S.domain_id_generator, S.shell_id_generator>>

\* What one call of form_pair saw and did, kept in info.pair: the sizes z of
\* step 1 and 2, the distance of the closest burst Single (step 3), the
\* closest domain c and the shell size it allows (step 4), the test of
\* step 5, whether the call raised, and whether it left S as it was.
pair_seen_closest(S, S1, single1, single2, z, b, c) ==
    [tried |-> TRUE, single1 |-> single1.domain_id,
     single2 |-> single2.domain_id, z |-> z,
     burst_distance |-> b.distance,
     closest |-> c.closest,
     closest_distance |-> c.distance,
     shell_size |-> pair_shell_size(S, z, c),
     singles_are_better |->
        singles_are_better(z, single1, single2, pair_shell_size(S, z, c)),
     raised |-> S1.err # "none",
     pair_id |-> S.domain_id_generator,
     unchanged |-> Frame(S1) = Frame(S)]

pair_seen(S, S1, single1, single2, z, b, g) ==
    pair_seen_closest(S, S1, single1, single2, z, b,
                      IF g.distance < b.distance THEN g ELSE b)

\* self.form_pair(single1, pos1, single2, burst); info.formed tells whether
\* a Pair was returned.
form_pair(S, did1, did2, burst) ==
    IF ~ (is_reset(S.domains[did1]) /\ is_reset(S.domains[did2]))
    THEN {Raise(S, "AssertionError")}
    ELSE {[S1 EXCEPT !.info.pair =
              pair_seen(S, S1, S.domains[did1], S.domains[did2],
                        pair_sizes(S, S.domains[did1], S.domains[did2]),
                        closest_burst(
                            S, pair_sizes(S, S.domains[did1], S.domains[did2]).com,
                            burst, [closest |-> 0, distance |-> Inf]),
                        get_closest_obj(
                            S, pair_sizes(S, S.domains[did1], S.domains[did2]).com,
                            {did1, did2}))]
          : S1 \in form_pair_checked(
                      S, S.domains[did1], S.domains[did2], burst,
                      pair_sizes(S, S.domains[did1], S.domains[did2]))}

-----------------------------------------------------------------------------
(* Multi domains (multi.py) and forming them.                              *)

\* The time step of the Brownian dynamics of a Multi (dt_factor times the
\* step the species allow).
bd_dt == 2

\* radius * (1.0 + self.MULTI_SHELL_FACTOR)
multi_shell_size(radius) ==
    (radius * (20 + MULTI_SHELL_FACTOR_TWENTIETHS)) \div 20

\* Multi(domain_id, self, dt_factor)
Multi(did) ==
    [kind |-> "Multi", domain_id |-> did, particles |-> << >>,
     shell_list |-> << >>, dt |-> 0, last_time |-> 0, last_event |-> "none",
     event_id |-> 0]

\* Multi.initialize(t)
multi_initialize(multi, now) ==
    [multi EXCEPT !.dt = bd_dt, !.last_time = now, !.last_event = "none"]

\* Multi.has_particle(pid)
has_particle(multi, pid) == pid \in DOMAIN multi.particles

\* self.create_multi(); the new Multi's domain id is the generator's value
\* before the call.
create_multi(S) ==
    [S EXCEPT !.domain_id_generator = S.domain_id_generator + 1,
              !.domains = (S.domain_id_generator :> Multi(S.domain_id_generator))
                             @@ S.domains]

\* self.new_spherical_shell(domain_id, pos, size); the new shell's id is the
\* generator's value before the call.
new_spherical_shell(S, did, pos, size) ==
    [S EXCEPT !.shell_id_generator = S.shell_id_generator + 1,
              !.containers = (S.shell_id_generator :>
                                 [did |-> did, pos |-> pos, radius |-> size])
                             @@ S.containers]

\* add_to_multi with a shell of the radius of the particle.
add_to_multi_tight_shell(S, single, mdid) ==
    [new_spherical_shell(S, mdid, single.particle.pos, single.particle.radius)
     EXCEPT !.domains[mdid].shell_list =
                (S.shell_id_generator :>
                    [did |-> mdid, pos |-> single.particle.pos,
                     radius |-> single.particle.radius]) @@ @,
            !.domains[mdid].particles = (single.pid :> single.particle) @@ @,
            !.info.added = Append(@, single.pid)]

\* add_to_multi called twice for the same Single.
add_to_multi_twice(S, single, mdid) ==
    [new_spherical_shell(
         new_spherical_shell(S, mdid, single.particle.pos,
                             multi_shell_size(single.particle.radius)),
         mdid, single.particle.pos, multi_shell_size(single.particle.radius))
     EXCEPT !.domains[mdid].shell_list =
                (S.shell_id_generator :>
                    [did |-> mdid, pos |-> single.particle.pos,
                     radius |-> multi_shell_size(single.particle.radius)])
                @@ ((S.shell_id_generator + 1) :>
                    [did |-> mdid, pos |-> single.particle.pos,
                     radius |-> multi_shell_size(single.particle.radius)]) @@ @,
            !.domains[mdid].particles = (single.pid :> single.particle) @@ @,
            !.info.added = Append(Append(@, single.pid), single.pid)]

\* self.add_to_multi(single, multi); info.added lists the particles added.
add_to_multi(S, single, mdid) ==
    [new_spherical_shell(S, mdid, single.particle.pos,
                         multi_shell_size(single.particle.radius))
     EXCEPT !.domains[mdid].shell_list =
                (S.shell_id_generator :>
                    [did |-> mdid, pos |-> single.particle.pos,
                     radius |-> multi_shell_size(single.particle.radius)]) @@ @,
            !.domains[mdid].particles = (single.pid :> single.particle) @@ @,
            !.info.added = Append(@, single.pid)]

\* The shells of a Multi under the domain id of another.
moved_shells(multi1, did2) ==
    [x \in DOMAIN multi1.shell_list |->
        [multi1.shell_list[x] EXCEPT !.did = did2]]

\* merge_multis that leaves the shells of multi1 in the containers as they
\* are, under the domain id of multi1.
merge_multis_keep_tags(S, did1, did2) ==
    remove_event(
      [S EXCEPT !.info.merged =
                    Append(@, [multi1 |-> S.domains[did1],
                               multi2 |-> S.domains[did2]]),
                !.domains =
                    [d \in (DOMAIN S.domains) \ {did1} |->
                        IF d = did2
                        THEN [S.domains[d] EXCEPT
                                !.shell_list =
                                    moved_shells(S.domains[did1], did2) @@ @,
                                !.particles = S.domains[did1].particles @@ @]
                        ELSE S.domains[d]]],
      S.domains[did1])

\* self.merge_multis(multi1, multi2): multi1 is merged into multi2.
\* info.merged lists the two Multis as they were before each merge.
merge_multis(S, did1, did2) ==
    remove_event(
      [S EXCEPT !.info.merged =
                    Append(@, [multi1 |-> S.domains[did1],
                               multi2 |-> S.domains[did2]]),
                !.containers = moved_shells(S.domains[did1], did2) @@ S.containers,
                !.domains =
                    [d \in (DOMAIN S.domains) \ {did1} |->
                        IF d = did2
                        THEN [S.domains[d] EXCEPT
                                !.shell_list =
                                    moved_shells(S.domains[did1], did2) @@ @,
                                !.particles = S.domains[did1].particles @@ @]
                        ELSE S.domains[d]]],
      S.domains[did1])

\* The members of a list of domains whose shells are within radius of pos.
within_radius(S, pos, objs, radius) ==
    SelectSeq(objs, LAMBDA d : obj_distance(pos, S.domains[d]) <= radius)

\* One call of add_to_multi_recursive deeper, and back: info.depth counts
\* the calls that have not returned, info.max_depth is its maximum.
deeper(S) ==
    [S EXCEPT !.info.depth = @ + 1,
              !.info.max_depth = Max2(@, S.info.depth + 1)]

shallower(S) == [S EXCEPT !.info.depth = @ - 1]

\* self.add_to_multi_recursive(obj, multi).  An object of the list that is
\* no longer in the domain table was absorbed or merged before: it is
\* skipped, as the has_particle tests do.
RECURSIVE add_to_multi_recursive(_, _, _)
RECURSIVE add_all_to_multi(_, _, _)
add_to_multi_recursive(S, odid, mdid) ==
    IF odid \notin DOMAIN S.domains THEN {S}
    ELSE CASE S.domains[odid].kind = "Single" ->
           IF has_particle(S.domains[mdid], S.domains[odid].pid) THEN {S}
           ELSE IF ~ is_reset(S.domains[odid]) THEN {Raise(S, "AssertionError")}
           ELSE UNION {
             IF S3.err # "none" THEN {S3}
             ELSE UNION {
               IF S5.err # "none" THEN {S5}
               ELSE {shallower(S6)
                     : S6 \in add_all_to_multi(
                                S5,
                                within_radius(S5, obj.shell.pos, S5.bursted,
                                              multi_shell_size(obj.particle.radius)),
                                mdid)}
               : S5 \in burst_non_multis(
                          [S3 EXCEPT !.bursted = << >>],
                          get_neighbors_within_radius_no_sort(
                              S3, obj.shell.pos,
                              multi_shell_size(obj.particle.radius),
                              {obj.domain_id}))}
             : obj \in {S.domains[odid]},
               S3 \in {IF S2.err # "none" THEN S2 ELSE remove_event(S2, S.domains[odid])
                       : S2 \in {remove_domain(
                                   add_to_multi(deeper(S), S.domains[odid], mdid),
                                   S.domains[odid])}}}
      [] S.domains[odid].kind = "Multi" ->
           IF \E pp \in DOMAIN S.domains[mdid].particles :
                  has_particle(S.domains[odid], pp)
           THEN {S}
           ELSE {merge_multis(S, odid, mdid)}
      [] OTHER -> {Raise(S, "AssertionError")}

\* for obj in neighbors: self.add_to_multi_recursive(obj, multi)
add_all_to_multi(S, objs, mdid) ==
    IF objs = << >> THEN {S}
    ELSE UNION {IF S1.err # "none" THEN {S1}
                ELSE add_all_to_multi(S1, Tail(objs), mdid)
                : S1 \in add_to_multi_recursive(S, Head(objs), mdid)}

\* The branch of form_multi that creates a new Multi.
form_new_multi(S, single, near, mdid) ==
    UNION {
      IF S2.err # "none" THEN {S2}
      ELSE {IF S3.err # "none" THEN S3
            ELSE [add_multi_event(
                    [S3 EXCEPT !.domains[mdid] =
                        multi_initialize(S3.domains[mdid], S3.t)],
                    mdid)
                  EXCEPT !.info.formed = "Multi"]
            : S3 \in add_all_to_multi(S2, near, mdid)}
      : S2 \in {remove_domain(add_to_multi(create_multi(S), single, mdid),
                              single)}}

\* self.update_multi_event(self.t + multi.dt, multi)
reschedule_multi(S, mdid) ==
    update_multi_event(S, Plus(S.t, S.domains[mdid].dt), mdid)

\* The branch of form_multi that reuses the Multi that is closest.
form_reuse_multi(S, single, near, mdid) ==
    UNION {
      IF S2.err # "none" THEN {S2}
      ELSE {IF S3.err # "none" THEN S3
            ELSE [reschedule_multi(
                    [S3 EXCEPT !.domains[mdid] =
                        multi_initialize(S3.domains[mdid], S3.t)],
                    mdid)
                  EXCEPT !.info.formed = "Multi"]
            : S3 \in add_all_to_multi(S2, Tail(near), mdid)}
      : S2 \in {remove_domain(add_to_multi(S, single, mdid), single)}}

\* form_multi, given the neighbours within the minimal shell; info.handed
\* keeps the neighbours that are handed to the Multi.
form_multi_near(S, single, near) ==
    CASE S.domains[near[1]].kind = "Single" ->
           form_new_multi([S EXCEPT !.info.handed = near], single, near,
                          S.domain_id_generator)
      [] S.domains[near[1]].kind = "Multi" ->
           form_reuse_multi([S EXCEPT !.info.handed = near], single, near,
                            near[1])
      [] OTHER -> {Raise(S, "AssertionError")}

\* What one call of form_multi saw and did, kept in info.multi: the Single,
\* its neighbours and the distances of their shells from its position, the
\* Multi that is closest (0 when a new one is created), the domains, shells
\* and events before the call, and whether the call left S as it was.
multi_seen(S, S1, did, neighbors) ==
    [tried |-> TRUE, single |-> S.domains[did], neighbors |-> neighbors,
     dists |-> [i \in 1..Len(neighbors) |->
                  obj_distance(S.domains[did].shell.pos,
                               S.domains[neighbors[i]])],
     reused |-> IF S.domains[neighbors[1]].kind = "Multi"
                THEN neighbors[1] ELSE 0,
     multi_id |-> IF S.domains[neighbors[1]].kind = "Multi"
                  THEN neighbors[1] ELSE S.domain_id_generator,
     domains |-> S.domains, containers |-> S.containers,
     scheduler |-> S.scheduler, t |-> S.t,
     event_id_generator |-> S.event_id_generator,
     raised |-> S1.err # "none",
     unchanged |-> Frame(S1) = Frame(S)]

\* form_multi with the minimal shell of a Single in the place of the shell
\* of a Multi.
form_multi_far(S, did, neighbors) ==
    {[S1 EXCEPT !.info.multi = multi_seen(S, S1, did, neighbors)]
     : S1 \in
         IF obj_distance(S.domains[did].shell.pos, S.domains[neighbors[1]])
               > single_min_shell(S.domains[did].particle.radius)
         THEN {S}
         ELSE form_multi_near(
                S, S.domains[did],
                within_radius(S, S.domains[did].shell.pos, neighbors,
                              single_min_shell(S.domains[did].particle.radius)))}

\* self.form_multi(single, neighbors, dists); info.formed tells whether a
\* Multi was returned.
form_multi(S, did, neighbors) ==
    {[S1 EXCEPT !.info.multi = multi_seen(S, S1, did, neighbors)]
     : S1 \in
         IF obj_distance(S.domains[did].shell.pos, S.domains[neighbors[1]])
               > multi_shell_size(S.domains[did].particle.radius)
         THEN {S}
         ELSE form_multi_near(
                S, S.domains[did],
                within_radius(S, S.domains[did].shell.pos, neighbors,
                              multi_shell_size(S.domains[did].particle.radius)))}

\* The burst neighbours sorted by the distance of their shells from pos
\* (argsort), the earlier one first among equals.
RECURSIVE sort_neighbors(_, _, _)
sort_neighbors(S, pos, objs) ==
    IF objs = << >> THEN << >>
    ELSE LET m == CHOOSE i \in 1..Len(objs) : \A j \in 1..Len(objs) :
                      \/ obj_distance(pos, S.domains[objs[i]])
                           < obj_distance(pos, S.domains[objs[j]])
                      \/ /\ obj_distance(pos, S.domains[objs[i]])
                              = obj_distance(pos, S.domains[objs[j]])
                         /\ i <= j
         IN  <<objs[m]>> \o
             sort_neighbors(S, pos,
                 SubSeq(objs, 1, m - 1) \o SubSeq(objs, m + 1, Len(objs)))

\* form_pair_or_multi, given the neighbours in the order of their distance.
form_sorted(S, did, neighbors) ==
    UNION {
      IF S1.err # "none" \/ S1.info.formed = "Pair" THEN {S1}
      ELSE form_multi(S1, did, neighbors)
      : S1 \in IF S.domains[neighbors[1]].kind = "Single"
               THEN form_pair(S, did, neighbors[1], Tail(neighbors))
               ELSE {S}}

\* self.form_pair_or_multi(single, neighbors)
form_pair_or_multi(S, did, burst) ==
    IF burst = << >> THEN {Raise(S, "AssertionError")}
    ELSE form_sorted(S, did, sort_neighbors(S, S.domains[did].shell.pos, burst))

-----------------------------------------------------------------------------
(* One step of the Brownian dynamics of a Multi (Multi.step in multi.py).   *)

\* A particle of the multi, in the multi's container and in the world.
multi_update_particle(S, mdid, pid, p) ==
    update_particle([S EXCEPT !.domains[mdid].particles = (pid :> p) @@ @],
                    pid, p)

\* Multi.within_shell(pos, radius): the sphere lies inside one shell.
within_shell(multi, pos, radius) ==
    \E x \in DOMAIN multi.shell_list :
        distance(pos, multi.shell_list[x].pos) + radius
            <= multi.shell_list[x].radius

\* The member pid of the multi moves to newpos, outside the shells: the
\* volume there is cleared of other domains and the step reports
\* MULTI_ESCAPE.
multi_escape_to(S, mdid, pid, p, newpos) ==
    IF \/ within_shell(S.domains[mdid], newpos, p.radius)
       \/ check_overlap(S, newpos, p.radius, {pid})
    THEN {}
    ELSE {IF S1.err # "none" THEN S1
          ELSE multi_update_particle(
                 [S1 EXCEPT !.domains[mdid].last_event = "MULTI_ESCAPE"],
                 mdid, pid, [p EXCEPT !.pos = newpos])
          : S1 \in clear_volume(S, newpos, p.radius, {mdid})}

\* A member leaves the shells of the multi by the shortest displacement.
multi_escapes(S, mdid) ==
    UNION {multi_escape_to(
             S, mdid, pid, S.domains[mdid].particles[pid],
             apply_boundary(
               S.domains[mdid].particles[pid].pos
               + o * (multi_shell_size(S.domains[mdid].particles[pid].radius)
                        - S.domains[mdid].particles[pid].radius + 1)))
           : pid \in DOMAIN S.domains[mdid].particles, o \in {-1, 1}}

\* The member pid of the multi reacts by rule rt, which has no product or
\* one product that fits in its place.
multi_react(S, mdid, pid, p, rt) ==
    IF Len(rt) = 0
    THEN {[remove_particle(S, pid) EXCEPT
             !.domains[mdid].particles = Remove(@, pid),
             !.domains[mdid].last_event = "MULTI_UNIMOLECULAR_REACTION"]}
    ELSE IF Len(rt) = 1 /\ SpeciesRadius(rt[1]) <= p.radius
    THEN {[new_particle(remove_particle(S, pid), rt[1], p.pos) EXCEPT
             !.domains[mdid].particles =
                 (S.particle_id_generator :> Particle(p.pos, rt[1]))
                 @@ Remove(@, pid),
             !.domains[mdid].last_event = "MULTI_UNIMOLECULAR_REACTION"]}
    ELSE {}

\* A member reacts: the step reports MULTI_UNIMOLECULAR_REACTION.
multi_unimolecular(S, mdid) ==
    UNION {UNION {multi_react(S, mdid, pid, S.domains[mdid].particles[pid], rt)
                  : rt \in query_reaction_rule(
                              S, S.domains[mdid].particles[pid].sid)}
           : pid \in DOMAIN S.domains[mdid].particles}

\* The members pid1 and pid2 of the multi react to nothing or to one product
\* of species rt[1] at pos; the volume of a product that reaches out of the
\* shells is cleared of other domains.
multi_fuse(S, mdid, pid1, pid2, rt, pos) ==
    IF Len(rt) = 0
    THEN {[remove_particle(remove_particle(S, pid1), pid2) EXCEPT
             !.domains[mdid].particles = Remove(Remove(@, pid1), pid2),
             !.domains[mdid].last_event = "MULTI_BIMOLECULAR_REACTION"]}
    ELSE IF Len(rt) = 1
            /\ ~ check_overlap(S, pos, SpeciesRadius(rt[1]), {pid1, pid2})
    THEN {IF S1.err # "none" THEN S1
          ELSE [new_particle(remove_particle(remove_particle(S1, pid1), pid2),
                             rt[1], pos) EXCEPT
                  !.domains[mdid].particles =
                      (S1.particle_id_generator :> Particle(pos, rt[1]))
                      @@ Remove(Remove(@, pid1), pid2),
                  !.domains[mdid].last_event = "MULTI_BIMOLECULAR_REACTION"]
          : S1 \in IF within_shell(S.domains[mdid], pos, SpeciesRadius(rt[1]))
                   THEN {S}
                   ELSE clear_volume(S, pos, SpeciesRadius(rt[1]), {mdid})}
    ELSE {}

\* Two members in contact react by the rule of their species, which has a
\* positive rate: the step reports MULTI_BIMOLECULAR_REACTION.
multi_bimolecular(S, mdid) ==
    UNION {
      IF /\ pid1 < pid2
         /\ query_pair_rule(S, S.domains[mdid].particles[pid1].sid,
                            S.domains[mdid].particles[pid2].sid).k > 0
         /\ distance(S.domains[mdid].particles[pid1].pos,
                     S.domains[mdid].particles[pid2].pos)
               <= multi_shell_size(S.domains[mdid].particles[pid1].radius)
                  + multi_shell_size(S.domains[mdid].particles[pid2].radius)
      THEN multi_fuse(S, mdid, pid1, pid2,
                      query_pair_rule(S, S.domains[mdid].particles[pid1].sid,
                                      S.domains[mdid].particles[pid2].sid).products,
                      calculate_pair_CoM(S.domains[mdid].particles[pid1].pos,
                                         S.domains[mdid].particles[pid2].pos,
                                         S.domains[mdid].particles[pid1].D,
                                         S.domains[mdid].particles[pid2].D))
      ELSE {}
      : pid1 \in DOMAIN S.domains[mdid].particles,
        pid2 \in DOMAIN S.domains[mdid].particles}

\* Multi.step(): no event, an escape or a reaction.
multi_step(S, mdid) ==
    {[S EXCEPT !.domains[mdid].last_event = "none"]}
    \cup multi_escapes(S, mdid)
    \cup multi_unimolecular(S, mdid)
    \cup multi_bimolecular(S, mdid)

-----------------------------------------------------------------------------
(* The event handlers.                                                     *)

\* update_single with get_closest_obj, as fire_single calls it for the
\* Single that fired and for every Single it burst.
update_single_closest(S, did, c) ==
    update_single(S, did, c.closest, c.distance)

\* restore_shells that leaves the events of the burst Singles at their time.
RECURSIVE restore_shells_no_event(_, _)
restore_shells_no_event(S, burst) ==
    IF burst = << >> THEN {S}
    ELSE IF \/ Head(burst) \notin DOMAIN S.domains
            \/ S.domains[Head(burst)].kind # "Single"
    THEN restore_shells_no_event(S, Tail(burst))
    ELSE UNION {
           restore_shells_no_event(S1, Tail(burst))
           : S1 \in update_single_closest(
                      S, Head(burst),
                      get_closest_obj(S, S.domains[Head(burst)].shell.pos,
                                      {Head(burst)}))}

\* The loop of fire_single that restores the shells of the burst Singles.
RECURSIVE restore_shells(_, _)
restore_shells(S, burst) ==
    IF burst = << >> THEN {S}
    ELSE IF \/ Head(burst) \notin DOMAIN S.domains
            \/ S.domains[Head(burst)].kind # "Single"
    THEN restore_shells(S, Tail(burst))
    ELSE IF ~ is_reset(S.domains[Head(burst)])
    THEN {Raise(S, "AssertionError")}
    ELSE UNION {
           UNION {IF S2.err # "none" THEN {S2}
                  ELSE restore_shells(S2, Tail(burst))
                  : S2 \in {update_single_event(
                              S1, Plus(S1.t, S1.domains[Head(burst)].dt),
                              Head(burst))}}
           : S1 \in update_single_closest(
                      S, Head(burst),
                      get_closest_obj(S, S.domains[Head(burst)].shell.pos,
                                      {Head(burst)}))}

\* S with a record of where the restoring of shells starts: the Single that
\* fired, the list of burst domains, and the domains and events at that time.
restore_seen(S, did, burst) ==
    [S EXCEPT !.info.restore =
        [tried |-> TRUE, single |-> did, burst |-> burst,
         domains |-> S.domains, scheduler |-> S.scheduler]]

\* The branch of fire_single for no Pair or Multi formed: recheck closest and
\* restore shells.
fire_single_restore(S, did, burst) ==
    UNION {
      {IF S4.err # "none" THEN S4 ELSE add_single_event(S4, did)
       : S4 \in restore_shells(S3, burst)}
      : S3 \in update_single_closest(
                 restore_seen(S, did, burst), did,
                 get_closest_obj(S, S.domains[did].shell.pos, {did}))}

\* S with a record of the intruders and of the domains and events they were
\* found with.
intruders_seen(S, intruders) ==
    [S EXCEPT !.info.intruders =
        [list |-> intruders, domains |-> S.domains,
         scheduler |-> S.scheduler]]

\* The branch of fire_single for intruders: they are burst, and a Pair or
\* a Multi is formed with them if possible.
fire_single_intruders(S, did, intruders) ==
    UNION {
      IF S1.err # "none" THEN {S1}
      ELSE UNION {
        IF S2.err # "none" \/ S2.info.formed # "none" THEN {S2}
        ELSE fire_single_restore(S2, did, uniq(S1.bursted))
        : S2 \in form_pair_or_multi(S1, did, S1.bursted)}
      : S1 \in burst_non_multis(
                 intruders_seen([S EXCEPT !.bursted = << >>], intruders),
                 intruders)}

\* The part of fire_single after the propagation, given what get_intruders
\* found.
fire_single_cleared(S, did, g) ==
    IF g.intruders # << >>
    THEN fire_single_intruders(S, did, g.intruders)
    ELSE {add_single_event(S1, did)
          : S1 \in update_single(S, did, g.closest, g.closest_distance)}

\* The part of fire_single after the propagation: clear the volume, form a
\* Pair or a Multi, or give the Single a new shell and a new event.
fire_single_update(S, did) ==
    fire_single_cleared(
      S, did,
      get_intruders(S, S.domains[did].shell.pos,
                    single_min_shell(S.domains[did].particle.radius), {did}))

\* self.fire_single(single).  With self.t infinite, dt + last_time - self.t
\* is not a number and the assertion fails.
fire_single(S, did) ==
    IF S.t >= Inf \/ Plus(S.domains[did].dt, S.domains[did].last_time) # S.t
    THEN {Raise([S EXCEPT !.info.timing = "fire_single"], "AssertionError")}
    ELSE IF S.domains[did].event_type = "SINGLE_REACTION"
    THEN UNION {IF S1.err # "none" THEN {S1}
                ELSE try_single_reaction(S1, S1.domains[did])
                : S1 \in propagate_single(S, did)}
    ELSE IF S.domains[did].particle.D = 0
    THEN {add_single_event(
            [S EXCEPT !.domains[did].dt = ev.dt,
                      !.domains[did].event_type = ev.event_type,
                      !.domains[did].last_time = S.t], did)
          : ev \in determine_next_event(S, S.domains[did])}
    ELSE UNION {IF S1.err # "none" THEN {S1}
                ELSE fire_single_update(S1, did)
                : S1 \in IF S.domains[did].dt # 0
                         THEN propagate_single(S, did) ELSE {S}}

\* Pair.draw_new_com(dt, event_type) at a reaction of the two particles.
draw_new_com(pair) == {pair.com}

\* The branch for a reaction of the two particles without the final
\* remove_domain(pair).
fire_pair_reaction_keep_pair(S, pair) ==
    UNION {
      IF S2.err # "none" THEN {S2}
      ELSE IF Len(pair.rt.products) = 1
      THEN {[add_product(S2, pair.rt.products[1], apply_boundary(c))
             EXCEPT !.reaction_events = S.reaction_events + 1]
            : c \in draw_new_com(pair)}
      ELSE {S2}
      : S2 \in {IF S1.err # "none" THEN S1
                ELSE remove_particle(S1, pair.single2.pid)
                : S1 \in {remove_particle(S, pair.single1.pid)}}}

\* The branch of fire_pair for a reaction of the two particles (IV_REACTION).
fire_pair_reaction(S, pair) ==
    UNION {
      IF S2.err # "none" THEN {S2}
      ELSE IF Len(pair.rt.products) = 1
      THEN {IF ~ (distance(pair.com, c)
                    < pair.shell.radius - SpeciesRadius(pair.rt.products[1]))
            THEN Raise(S2, "AssertionError")
            ELSE remove_domain(
                   [add_product(S2, pair.rt.products[1], apply_boundary(c))
                    EXCEPT !.reaction_events = S.reaction_events + 1],
                   pair)
            : c \in draw_new_com(pair)}
      ELSE IF Len(pair.rt.products) = 0
      THEN {remove_domain(S2, pair)}
      ELSE {Raise(S2, "NotImplementedError")}
      : S2 \in {IF S1.err # "none" THEN S1
                ELSE remove_particle(S1, pair.single2.pid)
                : S1 \in {remove_particle(S, pair.single1.pid)}}}

\* The branch of fire_pair for a reaction of one particle (SINGLE_REACTION).
fire_pair_single_reaction(S, pdid, reacting, theother) ==
    UNION {
      IF S1.err # "none" THEN {S1}
      ELSE UNION {try_single_reaction(S2, S2.domains[reacting])
                  : S2 \in {add_single_event(S1, theother)}}
      : S1 \in burst_pair(S, pdid)}

\* fire_pair that schedules only the first Single after an escape.
fire_pair_event_one_event(S, pdid, pair, et) ==
    CASE et = "SINGLE_REACTION" ->
           IF pair.reactingsingle = 1
           THEN fire_pair_single_reaction(S, pdid, pair.single1.domain_id,
                                          pair.single2.domain_id)
           ELSE fire_pair_single_reaction(S, pdid, pair.single2.domain_id,
                                          pair.single1.domain_id)
      [] et = "IV_REACTION" -> fire_pair_reaction(S, pair)
      [] OTHER ->
           {IF S1.err # "none" THEN S1
            ELSE add_single_event(S1, pair.single1.domain_id)
            : S1 \in propagate_pair(S, pdid, pair.dt, et)}

\* fire_pair, given the event type that was drawn.
fire_pair_event(S, pdid, pair, et) ==
    CASE et = "SINGLE_REACTION" ->
           IF pair.reactingsingle = 1
           THEN fire_pair_single_reaction(S, pdid, pair.single1.domain_id,
                                          pair.single2.domain_id)
           ELSE fire_pair_single_reaction(S, pdid, pair.single2.domain_id,
                                          pair.single1.domain_id)
      [] et = "IV_REACTION" -> fire_pair_reaction(S, pair)
      [] et \in {"IV_ESCAPE", "COM_ESCAPE"} ->
           {IF S1.err # "none" THEN S1
            ELSE add_single_event(
                   add_single_event(S1, pair.single1.domain_id),
                   pair.single2.domain_id)
            : S1 \in propagate_pair(S, pdid, pair.dt, et)}
      [] OTHER -> {Raise(S, "SystemError")}

\* self.fire_pair(pair)
fire_pair(S, pdid) ==
    IF ~ check_obj(S, S.domains[pdid]) THEN {Raise(S, "AssertionError")}
    ELSE UNION {
      fire_pair_event([S EXCEPT !.domains[pdid].event_type = et,
                                !.info.event_type = et],
                      pdid, S.domains[pdid], et)
      : et \in IF S.domains[pdid].event_type = "IV_EVENT"
               THEN draw_iv_event_type(S.domains[pdid])
               ELSE {S.domains[pdid].event_type}}

\* fire_multi_event that schedules the Multi again whatever its last event
\* was.
fire_multi_event_keep(S, mdid, multi) ==
    [add_multi_event(S, mdid) EXCEPT !.info.event_type = multi.last_event,
                                     !.info.stepped = multi]

\* The part of fire_multi after multi.step().
fire_multi_event(S, mdid, multi) ==
    IF multi.last_event = "none"
    THEN [add_multi_event(S, mdid) EXCEPT !.info.stepped = multi]
    ELSE [break_up_multi(
            IF multi.last_event \in {"MULTI_UNIMOLECULAR_REACTION",
                                     "MULTI_BIMOLECULAR_REACTION"}
            THEN [S EXCEPT !.reaction_events = S.reaction_events + 1]
            ELSE S,
            multi)
          EXCEPT !.info.event_type = multi.last_event,
                 !.info.stepped = multi]

\* self.fire_multi(multi)
fire_multi(S, mdid) ==
    {IF S1.err # "none" THEN S1 ELSE fire_multi_event(S1, mdid, S1.domains[mdid])
     : S1 \in multi_step(S, mdid)}

-----------------------------------------------------------------------------
(* The operations of the simulator that its user calls.                    *)

\* The event ids of the scheduler in the order of iteration.
scheduler_items(sch) == SortedSeq(DOMAIN sch)

\* self.set_user_max_shell_size(size)
set_user_max_shell_size(S, size) == [S EXCEPT !.user_max_shell_size = size]

\* self.reset()
reset(S) ==
    [S EXCEPT !.t = 0, !.dt = 0, !.step_counter = 0, !.zero_steps = 0,
              !.rejected_moves = 0, !.reaction_events = 0, !.is_dirty = TRUE]

\* The first loop of initialize: a Single for every particle, in the order
\* of the particle ids.
RECURSIVE initialize_singles(_, _)
initialize_singles(S, pids) ==
    IF pids = << >> THEN S
    ELSE initialize_singles(create_single(S, Head(pids)), Tail(pids))

\* The second loop of initialize: an event for every Single created.
RECURSIVE initialize_events(_, _, _)
initialize_events(S, did, last) ==
    IF did > last THEN S
    ELSE initialize_events(add_single_event(S, did), did + 1, last)

\* initialize without pid_particle_pairs.sort(): the particles are taken in
\* descending order of their ids.
initialize_unsorted(S) ==
    [initialize_events(
       initialize_singles(
         [S EXCEPT !.scheduler = << >>, !.containers = << >>,
                   !.domains = << >>],
         [i \in 1..Cardinality(DOMAIN S.particles) |->
            SortedSeq(DOMAIN S.particles)[Cardinality(DOMAIN S.particles) + 1 - i]]),
       S.domain_id_generator,
       S.domain_id_generator + Cardinality(DOMAIN S.particles) - 1)
     EXCEPT !.is_dirty = FALSE]

\* initialize that leaves the domain table as it is.
initialize_keep_domains(S) ==
    [initialize_events(
       initialize_singles(
         [S EXCEPT !.scheduler = << >>, !.containers = << >>],
         SortedSeq(DOMAIN S.particles)),
       S.domain_id_generator,
       S.domain_id_generator + Cardinality(DOMAIN S.particles) - 1)
     EXCEPT !.is_dirty = FALSE]

\* self.initialize()
initialize(S) ==
    [initialize_events(
       initialize_singles(
         [S EXCEPT !.scheduler = << >>, !.containers = << >>,
                   !.domains = << >>],
         SortedSeq(DOMAIN S.particles)),
       S.domain_id_generator,
       S.domain_id_generator + Cardinality(DOMAIN S.particles) - 1)
     EXCEPT !.is_dirty = FALSE]

\* The first loop of stop: every Single of the scheduler is burst.
RECURSIVE stop_burst_singles(_, _)
stop_burst_singles(S, dids) ==
    IF dids = << >> THEN {S}
    ELSE IF S.domains[Head(dids)].kind # "Single"
    THEN stop_burst_singles(S, Tail(dids))
    ELSE UNION {IF S1.err # "none" THEN {S1}
                ELSE stop_burst_singles(S1, Tail(dids))
                : S1 \in burst_single(S, Head(dids))}

\* The domains of the events of the scheduler, in the order of iteration.
scheduler_domains(S, items) == [i \in 1..Len(items) |-> S.scheduler[items[i]].data]

\* non_single_list of stop.
non_singles(S, dids) == SelectSeq(dids, LAMBDA d : S.domains[d].kind # "Single")

\* stop_burst without the second loop: Pairs and Multis stay as they are.
stop_burst_singles_only(S, dids) ==
    {IF S1.err # "none" THEN S1 ELSE [S1 EXCEPT !.dt = 0]
     : S1 \in stop_burst_singles(S, dids)}

\* The part of stop after the tests of the time: all Singles are burst, then
\* all Pairs and Multis.
stop_burst(S, dids) ==
    UNION {IF S1.err # "none" THEN {S1}
           ELSE {IF S2.err # "none" THEN S2 ELSE [S2 EXCEPT !.dt = 0]
                 : S2 \in burst_objs(S1, non_singles(S, dids))}
           : S1 \in stop_burst_singles(S, dids)}

\* The part of stop after the test for the current time: the stop time is
\* tested against the next event and the current time, then every domain
\* is burst.
stop_synchronize(S, tt) ==
    IF DOMAIN S.scheduler = {} THEN {Raise(S, "IndexError")}
    ELSE IF tt >= S.scheduler[scheduler_top(S.scheduler)].time
    THEN {Raise(S, "RuntimeError")}
    ELSE IF tt < S.t THEN {Raise(S, "RuntimeError")}
    ELSE stop_burst([S EXCEPT !.t = tt],
                    scheduler_domains(S, scheduler_items(S.scheduler)))

\* stop without the test for the current time.
stop_always_synchronize(S, tt) == stop_synchronize(S, tt)

\* stop that sets the time without a look at the time now or at the
\* scheduler.
stop_any_time(S, tt) == {[S EXCEPT !.t = tt, !.dt = 0]}

\* self.stop(t)
stop(S, tt) ==
    IF S.t = tt THEN {S} ELSE stop_synchronize(S, tt)

\* step_next_time without the limit on the steps that do not advance the
\* time.
step_next_time_no_limit(S, d, size) ==
    IF d = 0
    THEN [S EXCEPT !.dt = d, !.zero_steps = S.zero_steps + 1]
    ELSE [S EXCEPT !.dt = d, !.zero_steps = 0]

\* The end of step, given the time of the next event: the time to it and the
\* count of steps that did not advance the time.
step_next_time(S, d, size) ==
    IF d = 0
    THEN IF S.zero_steps + 1 >= Max2(size * 3, 10)
         THEN Raise([S EXCEPT !.dt = d, !.zero_steps = S.zero_steps + 1],
                    "RuntimeError")
         ELSE [S EXCEPT !.dt = d, !.zero_steps = S.zero_steps + 1]
    ELSE [S EXCEPT !.dt = d, !.zero_steps = 0]

\* The end of step, after the event was dispatched.
step_finish(S) ==
    IF DOMAIN S.scheduler = {} THEN Raise(S, "RuntimeError")
    ELSE step_next_time(
           S,
           IF S.scheduler[scheduler_top(S.scheduler)].time >= Inf THEN Inf
           ELSE S.scheduler[scheduler_top(S.scheduler)].time - S.t,
           Cardinality(DOMAIN S.scheduler))

\* self.dispatch: the handler of the class of the domain.
dispatch(S, did) ==
    CASE S.domains[did].kind = "Single" -> fire_single(S, did)
      [] S.domains[did].kind = "Pair" -> fire_pair(S, did)
      [] OTHER -> fire_multi(S, did)

\* The part of step from scheduler.pop() on, given the top event.
step_event(S, id, event, obj) ==
    {IF S3.err # "none" THEN S3 ELSE step_finish(S3)
     : S3 \in dispatch(
                [S EXCEPT !.scheduler = Remove(S.scheduler, id),
                          !.t = event.time,
                          !.info.fired = obj.kind,
                          !.info.event_type =
                              IF obj.kind = "Multi" THEN "none"
                              ELSE obj.event_type,
                          !.info.did = event.data],
                event.data)}

\* The part of step after initialize().
step_counted(S) ==
    IF DOMAIN S.scheduler = {} THEN {Raise(S, "RuntimeError")}
    ELSE step_event(S, scheduler_top(S.scheduler),
                    S.scheduler[scheduler_top(S.scheduler)],
                    S.domains[S.scheduler[scheduler_top(S.scheduler)].data])

\* S with a record of what initialize() left, for a step that began with it.
initialized_seen(S) ==
    [S EXCEPT !.info.initialized =
        [done |-> TRUE, t |-> S.t, domains |-> S.domains,
         scheduler |-> S.scheduler, containers |-> S.containers,
         particles |-> S.particles]]

\* self.step()
step(S) ==
    IF S.is_dirty
    THEN step_counted([initialized_seen(initialize(S))
                       EXCEPT !.step_counter = S.step_counter + 1])
    ELSE step_counted([S EXCEPT !.step_counter = S.step_counter + 1])

-----------------------------------------------------------------------------
(* The worlds and rule sets the simulator is constructed with.             *)

\* No rule for a single species; one repulsive rule for every two species.
NoUni == [sid \in Species |-> {}]
Repulsive == [k |-> 0, products |-> << >>]

\* Two particles close enough to form a Pair, which may react to one
\* product; each of them may grow, for which the other leaves no space.
PairWorld ==
    [particles |-> (1 :> Particle(100, 1)) @@ (2 :> Particle(142, 1)),
     network_rules |-> [uni |-> [NoUni EXCEPT ![1] = {<<3>>}],
                        bi |-> [k |-> 1, products |-> <<3>>]],
     dissociation_retry_moves |-> 1]

\* A particle that decays, grows or splits, with a neighbour that leaves no
\* space for a larger product or for two products.
CrowdedWorld ==
    [particles |-> (1 :> Particle(100, 1)) @@ (2 :> Particle(145, 2)),
     network_rules |-> [uni |-> [NoUni EXCEPT ![1] = {<<3>>, <<2, 2>>}],
                        bi |-> Repulsive],
     dissociation_retry_moves |-> 2]

\* The same particle with space around it, and an immobile particle.
FreeWorld ==
    [particles |-> (1 :> Particle(100, 1)) @@ (2 :> Particle(400, 4)),
     network_rules |-> [uni |-> [NoUni EXCEPT ![1] = {<< >>, <<3>>, <<2, 2>>}],
                        bi |-> Repulsive],
     dissociation_retry_moves |-> 1]

\* Three particles in a row, too close for a Pair: a Multi forms.  Two of
\* them annihilate when they react.
RowWorld ==
    [particles |-> (1 :> Particle(100, 1)) @@ (2 :> Particle(141, 1))
                   @@ (3 :> Particle(182, 1)),
     network_rules |-> [uni |-> NoUni, bi |-> [k |-> 1, products |-> << >>]],
     dissociation_retry_moves |-> 1]

\* Three particles, the outer two close to the one in the middle: a Pair of
\* two of them is squeezed by the third, which is within the minimal shell
\* of a Single and beyond the shell of a Multi.
SqueezeWorld ==
    [particles |-> (1 :> Particle(100, 1)) @@ (2 :> Particle(141, 1))
                   @@ (3 :> Particle(58, 1)),
     network_rules |-> [uni |-> NoUni, bi |-> Repulsive],
     dissociation_retry_moves |-> 1]

\* Two particles close enough to form a Pair and a third one at a distance
\* that leaves the Pair less than its minimal shell with margin.
NeighbourWorld ==
    [particles |-> (1 :> Particle(100, 1)) @@ (2 :> Particle(142, 1))
                   @@ (3 :> Particle(231, 1)),
     network_rules |-> [uni |-> NoUni, bi |-> Repulsive],
     dissociation_retry_moves |-> 1]

\* Three particles in a chain: the second is within the shell of a Multi
\* of the first, and the third of the second.
ChainWorld ==
    [particles |-> (1 :> Particle(100, 1)) @@ (2 :> Particle(141, 1))
                   @@ (3 :> Particle(181, 1)),
     network_rules |-> [uni |-> NoUni, bi |-> Repulsive],
     dissociation_retry_moves |-> 1]

\* Four particles: the first two form a Multi, and the Multi the other two
\* form then reaches it.
MergeWorld ==
    [particles |-> (1 :> Particle(100, 1)) @@ (2 :> Particle(141, 1))
                   @@ (3 :> Particle(223, 1)) @@ (4 :> Particle(182, 1)),
     network_rules |-> [uni |-> NoUni, bi |-> Repulsive],
     dissociation_retry_moves |-> 1]

\* One particle alone in the world, which decays.
LoneWorld ==
    [particles |-> (1 :> Particle(100, 1)),
     network_rules |-> [uni |-> [NoUni EXCEPT ![1] = {<< >>}],
                        bi |-> Repulsive],
     dissociation_retry_moves |-> 1]

\* Two particles close enough to form a Pair, which annihilate when they
\* react, and an immobile particle far from them.
VanishWorld ==
    [particles |-> (1 :> Particle(100, 1)) @@ (2 :> Particle(142, 1))
                   @@ (3 :> Particle(400, 4)),
     network_rules |-> [uni |-> NoUni, bi |-> [k |-> 1, products |-> << >>]],
     dissociation_retry_moves |-> 1]

\* Two particles that form a Multi and a larger one whose smallest shell
\* reaches the Multi while its Multi distance does not.
IntruderWorld ==
    [particles |-> (1 :> Particle(100, 1)) @@ (2 :> Particle(141, 1))
                   @@ (3 :> Particle(194, 3)),
     network_rules |-> [uni |-> NoUni, bi |-> Repulsive],
     dissociation_retry_moves |-> 1]

\* Two particles that form a Pair and a third one far enough to be left
\* alone, whose escape can bring it next to the Pair.
BurstPairWorld ==
    [particles |-> (1 :> Particle(100, 1)) @@ (2 :> Particle(142, 1))
                   @@ (3 :> Particle(255, 1)),
     network_rules |-> [uni |-> NoUni, bi |-> Repulsive],
     dissociation_retry_moves |-> 1]

\* A particle that decays into two, alone in the world, with no retry
\* allowed.
NoRetryWorld ==
    [particles |-> (1 :> Particle(100, 1)),
     network_rules |-> [uni |-> [NoUni EXCEPT ![1] = {<<2, 2>>}],
                        bi |-> Repulsive],
     dissociation_retry_moves |-> 0]

\* A particle that decays into two particles that do not diffuse.
StillWorld ==
    [particles |-> (1 :> Particle(100, 1)) @@ (2 :> Particle(400, 4)),
     network_rules |-> [uni |-> [NoUni EXCEPT ![1] = {<<4, 4>>, <<2, 4>>}],
                        bi |-> Repulsive],
     dissociation_retry_moves |-> 1]

\* Two particles with rules that have more products than are supported:
\* three for the decay of one, two for the reaction of both.
UnsupportedWorld ==
    [particles |-> (1 :> Particle(100, 1)) @@ (2 :> Particle(142, 1)),
     network_rules |-> [uni |-> [NoUni EXCEPT ![1] = {<<2, 2, 2>>}],
                        bi |-> [k |-> 1, products |-> <<3, 3>>]],
     dissociation_retry_moves |-> 1]

Worlds ==
    {PairWorld, CrowdedWorld, FreeWorld, RowWorld, LoneWorld, VanishWorld,
     SqueezeWorld, NeighbourWorld, ChainWorld, MergeWorld, IntruderWorld,
     BurstPairWorld, NoRetryWorld, StillWorld, UnsupportedWorld}

\* The times stop is called with and the sizes set_user_max_shell_size is
\* called with.
StopTimes == 0..(MaxDt + 1)
UserSizes == {35, Inf}

-----------------------------------------------------------------------------
(* The state machine: the simulator is constructed, then driven call by    *)
(* call.                                                                   *)

\* The simulator without what a handler reports.
Clean(S) == [S EXCEPT !.err = "none", !.bursted = << >>, !.info = NoInfo]

\* The record of a call: the operation, its argument, how it returned, what
\* the handler reported, the simulator before the call, and the call before.
Call(op, arg, S) ==
    [op |-> op, arg |-> arg,
     status |-> IF S.err = "none" THEN "ok" ELSE "raised",
     err |-> S.err, info |-> S.info, pre |-> Sim,
     changed |-> Clean(S) # Sim,
     last |-> [op |-> ret.op, arg |-> ret.arg, status |-> ret.status,
               changed |-> ret.changed]]

\* EGFRDSimulator.__init__(world, rng, network_rules): reset() is called and
\* nothing is scheduled yet.
\* No file of the ecell4 package is open while the simulator runs.
Closed == [opened |-> FALSE]

Construct(w) ==
        /\ t = 0
        /\ dt = 0
        /\ step_counter = 0
        /\ zero_steps = 0
        /\ rejected_moves = 0
        /\ reaction_events = 0
        /\ is_dirty = TRUE
        /\ user_max_shell_size = Inf
        /\ domains = << >>
        /\ containers = << >>
        /\ scheduler = << >>
        /\ event_id_generator = 1
        /\ domain_id_generator = 1
        /\ shell_id_generator = 1
        /\ particles = w.particles
        /\ particle_id_generator = Cardinality(DOMAIN w.particles) + 1
        /\ network_rules = w.network_rules
        /\ dissociation_retry_moves = w.dissociation_retry_moves
        /\ ncalls = 0
        /\ ret = [op |-> "construct", arg |-> 0, status |-> "ok",
                  err |-> "none", info |-> NoInfo, pre |-> Sim,
                  changed |-> FALSE,
                  last |-> [op |-> "none", arg |-> 0, status |-> "ok",
                            changed |-> FALSE]]

\* The simulator is constructed with one of the worlds.
Init == (\E w \in Worlds : Construct(w)) /\ hdf5 = Closed

\* The driver makes another call unless a call raised and left the simulator
\* half way through an operation.
Running == ncalls < MaxCalls /\ (ret.status = "ok" \/ ~ ret.changed)

\* The outcome S of a call is installed and recorded.
Return(op, arg, S) ==
    /\ Install(S)
    /\ ret' = Call(op, arg, S)
    /\ ncalls' = ncalls + 1
    /\ UNCHANGED hdf5

Initialize ==
    /\ Running
    /\ Return("initialize", 0, initialize(Sim))

Step ==
    /\ Running
    /\ \E S \in step(Sim) : Return("step", 0, S)

Stop ==
    /\ Running
    /\ \E tt \in StopTimes : \E S \in stop(Sim, tt) : Return("stop", tt, S)

SetUserMaxShellSize ==
    /\ Running
    /\ \E size \in UserSizes :
           Return("set_user_max_shell_size", size,
                  set_user_max_shell_size(Sim, size))

Reset ==
    /\ Running
    /\ Return("reset", 0, reset(Sim))

Next == Initialize \/ Step \/ Stop \/ SetUserMaxShellSize \/ Reset

Spec == Init /\ [][Next]_vars


-----------------------------------------------------------------------------
(* Properties of the simulator.                                            *)

\* The last call was op and it returned normally.
Returned(op) == ret.op = op /\ ret.status = "ok"

\* The particle ids of a domain.
particle_ids(obj) ==
    CASE obj.kind = "Single" -> {obj.pid}
      [] obj.kind = "Pair" -> {obj.single1.pid, obj.single2.pid}
      [] OTHER -> DOMAIN obj.particles

\* The events of the scheduler whose payload is the domain did.
events_of(did) == {e \in DOMAIN scheduler : scheduler[e].data = did}

\* The sum of the multiplicities of the domains of a set of events.
RECURSIVE sum_multiplicity(_)
sum_multiplicity(events) ==
    IF events = {} THEN 0
    ELSE multiplicity(domains[scheduler[CHOOSE e \in events : TRUE].data])
         + sum_multiplicity(events \ {CHOOSE e \in events : TRUE})

\* The Single with domain id did as it was before the last call: a domain
\* of its own or a member of a Pair.
single_before(did) ==
    IF did \in DOMAIN ret.pre.domains THEN ret.pre.domains[did]
    ELSE CHOOSE s \in UNION {{ret.pre.domains[p].single1,
                              ret.pre.domains[p].single2}
                             : p \in {q \in DOMAIN ret.pre.domains :
                                        ret.pre.domains[q].kind = "Pair"}} :
             s.domain_id = did

\* C1: after initialize() and after every step() or stop() that returns
\* normally, every domain of the domain table owns exactly one scheduler
\* entry, the one of its event_id, whose payload is that domain, and the
\* payload of every scheduler entry is a domain of the table.
C1_DomainsMatchScheduler ==
    (Returned("initialize") \/ Returned("step") \/ Returned("stop")) =>
        /\ \A d \in DOMAIN domains :
              /\ events_of(d) = {domains[d].event_id}
              /\ domains[d].domain_id = d
        /\ \A e \in DOMAIN scheduler : scheduler[e].data \in DOMAIN domains

\* C1 happens: a step has burst a Pair and fired its reacting Single, or a
\* stop has burst domains, and several domains are scheduled.
C1_Witness ==
    /\ \/ Returned("step") /\ ret.info.fired = "Pair"
       \/ Returned("stop") /\ ret.changed
    /\ Cardinality(DOMAIN domains) >= 2
    /\ Cardinality(DOMAIN scheduler) >= 2

\* C2: after every step() that returns normally, the shell ids of the shell
\* container are the shell ids of the shell lists of the domains of the
\* table, and the did of each stored shell is the id of the domain that
\* lists it.
C2_ShellsMatchDomains ==
    Returned("step") =>
        /\ DOMAIN containers =
              UNION {DOMAIN shell_list(domains[d]) : d \in DOMAIN domains}
        /\ \A d \in DOMAIN domains :
              \A x \in DOMAIN shell_list(domains[d]) :
                 x \in DOMAIN containers => containers[x].did = d

\* C2 happens: a step that formed a Multi with several shells, or a step in
\* which a reaction was rejected and the shell of the Single was registered
\* again.
C2_Witness ==
    /\ Returned("step")
    /\ \/ \E d \in DOMAIN domains :
             /\ domains[d].kind = "Multi"
             /\ Cardinality(DOMAIN domains[d].shell_list) >= 2
       \/ ret.info.rejected # 0

\* C3: after every step() that returns normally, the distance from the
\* centre of every shell to every shell of another domain is at least the
\* size of the shell.
C3_NoShellOverlap ==
    Returned("step") =>
        \A d1 \in DOMAIN domains : \A d2 \in (DOMAIN domains) \ {d1} :
           \A x \in DOMAIN shell_list(domains[d1]) :
              \A y \in DOMAIN shell_list(domains[d2]) :
                 shell_distance(shell_list(domains[d2])[y],
                                shell_list(domains[d1])[x].pos)
                    >= shell_list(domains[d1])[x].radius

\* C3 happens: after a step two domains have shells, one of them larger
\* than its particle.
C3_Witness ==
    /\ Returned("step")
    /\ Cardinality(DOMAIN domains) >= 2
    /\ \E d \in DOMAIN domains :
          /\ domains[d].kind = "Single"
          /\ domains[d].shell.radius > domains[d].particle.radius

\* C4: after every step(), whatever calls of step(), stop() and
\* set_user_max_shell_size() came before, the size of every shell of every
\* domain is at most get_max_shell_size().
C4_ShellsWithinMax ==
    Returned("step") =>
        \A d \in DOMAIN domains :
           \A x \in DOMAIN shell_list(domains[d]) :
              shell_list(domains[d])[x].radius <= get_max_shell_size(Sim)

\* C5: after every step() that returns normally, the scheduler is not empty,
\* every particle of the world belongs to exactly one scheduled domain and
\* the multiplicities of the scheduled domains add up to the number of
\* particles.
C5_EventStoichiometry ==
    Returned("step") =>
        /\ DOMAIN scheduler # {}
        /\ \A e \in DOMAIN scheduler : scheduler[e].data \in DOMAIN domains
        /\ \A p \in DOMAIN particles :
              Cardinality({e \in DOMAIN scheduler :
                             p \in particle_ids(domains[scheduler[e].data])}) = 1
        /\ sum_multiplicity(DOMAIN scheduler) = Cardinality(DOMAIN particles)

\* C5 happens: a step in which a reaction changed the number of particles.
C5_Witness ==
    /\ Returned("step")
    /\ Cardinality(DOMAIN particles) # Cardinality(DOMAIN ret.pre.particles)

\* The two Singles of the Pair that fired are domains again, with their
\* particles.
pair_singles_back(pair, dids) ==
    \A s \in {pair.single1, pair.single2} :
       s.domain_id \in dids =>
          /\ s.domain_id \in DOMAIN domains
          /\ domains[s.domain_id].kind = "Single"
          /\ domains[s.domain_id].pid = s.pid

\* What has replaced the Pair that fired, by its event.
pair_replaced(pair, new) ==
    CASE ret.info.event_type \in {"IV_ESCAPE", "COM_ESCAPE"} ->
           /\ pair_singles_back(pair, {pair.single1.domain_id,
                                       pair.single2.domain_id})
           /\ DOMAIN domains = ((DOMAIN ret.pre.domains) \ {pair.domain_id})
                                 \cup {pair.single1.domain_id,
                                       pair.single2.domain_id}
      [] ret.info.event_type = "IV_REACTION" ->
           /\ DOMAIN domains \subseteq
                 ((DOMAIN ret.pre.domains) \ {pair.domain_id}) \cup new
           /\ Cardinality(new) = Len(pair.rt.products)
           /\ Cardinality(new) <= 1
           /\ \A d \in new : domains[d].kind = "Single"
           /\ pair.single1.pid \notin DOMAIN particles
           /\ pair.single2.pid \notin DOMAIN particles
      [] ret.info.event_type = "SINGLE_REACTION" ->
           /\ pair_singles_back(
                 pair,
                 IF ret.info.rejected # 0
                 THEN {pair.single1.domain_id, pair.single2.domain_id}
                 ELSE IF pair.reactingsingle = 1
                 THEN {pair.single2.domain_id}
                 ELSE {pair.single1.domain_id})
           /\ \A d \in new : domains[d].kind = "Single"
           /\ ret.info.rejected # 0 => new = {}
           /\ ret.info.rejected = 0 =>
                 /\ Cardinality(new) = ret.info.products
                 /\ (IF pair.reactingsingle = 1 THEN pair.single1.domain_id
                     ELSE pair.single2.domain_id) \notin DOMAIN domains
      [] OTHER -> FALSE

\* C6: when step() has popped the event of a Pair and returns, the Pair is
\* no longer in the domain table, the shell container or the scheduler; two
\* Singles have replaced it (after an escape, or after a single reaction,
\* where the products of the reacting Single took its place unless it was
\* restored), or no or one product Single (after a reaction of the two).
\* No Pair is in the scheduler with a time before the current time.
C6_PairDissolves ==
    /\ (Returned("step") /\ ret.info.fired = "Pair") =>
          /\ ret.info.did \notin DOMAIN domains
          /\ ret.pre.domains[ret.info.did].shell_id \notin DOMAIN containers
          /\ \A x \in DOMAIN containers : containers[x].did # ret.info.did
          /\ events_of(ret.info.did) = {}
          /\ pair_replaced(ret.pre.domains[ret.info.did],
                           {d \in DOMAIN domains :
                              d >= ret.pre.domain_id_generator})
    /\ ret.status = "ok" =>
          \A e \in DOMAIN scheduler :
             (/\ scheduler[e].data \in DOMAIN domains
              /\ domains[scheduler[e].data].kind = "Pair")
                => scheduler[e].time >= t

\* C6 happens: a step has fired a Pair whose two particles reacted.
C6_Witness ==
    /\ Returned("step")
    /\ ret.info.fired = "Pair"
    /\ ret.info.event_type = "IV_REACTION"
    /\ reaction_events = ret.pre.reaction_events + 1

\* C7: a NoSpace raised while a single reaction is fired does not leave
\* step(): the step returns normally, the reacting Single is in the domain
\* table again, its shell is registered under the shell id it had, it has
\* exactly one scheduler event, which is new, and rejected_moves has grown
\* by one.
C7_NoSpaceIsCaught ==
    /\ ret.err # "NoSpace"
    /\ (ret.op = "step" /\ ret.info.nospace) =>
          /\ ret.status = "ok"
          /\ ret.info.rejected \in DOMAIN domains
          /\ domains[ret.info.rejected].kind = "Single"
          /\ domains[ret.info.rejected].shell_id
                = single_before(ret.info.rejected).shell_id
          /\ domains[ret.info.rejected].shell_id \in DOMAIN containers
          /\ containers[domains[ret.info.rejected].shell_id]
                = domains[ret.info.rejected].shell
          /\ Cardinality(events_of(ret.info.rejected)) = 1
          /\ events_of(ret.info.rejected) \cap DOMAIN ret.pre.scheduler = {}
          /\ rejected_moves = ret.pre.rejected_moves + 1

\* C7 happens: NoSpace was raised in the single reaction of a Pair.
C7_Witness ==
    /\ ret.op = "step"
    /\ ret.info.nospace
    /\ ret.info.fired = "Pair"
    /\ ret.info.event_type = "SINGLE_REACTION"

\* C8: fire_single_reaction makes at most dissociation_retry_moves attempts
\* to place two products; when every attempt overlaps a particle, NoSpace
\* is raised with the reactant and every other particle still in the world,
\* no particle created and reaction_events unchanged.
C8_RetriesBounded ==
    (ret.op = "step" /\ ret.info.products = 2) =>
        /\ ret.info.attempts <= dissociation_retry_moves
        /\ ret.info.nospace =>
              /\ ret.info.attempts = dissociation_retry_moves
              /\ DOMAIN particles = DOMAIN ret.pre.particles
              /\ particle_id_generator = ret.pre.particle_id_generator
              /\ reaction_events = ret.pre.reaction_events

\* C8 happens: two attempts to place two products failed.
C8_Witness ==
    /\ ret.op = "step"
    /\ ret.info.products = 2
    /\ ret.info.nospace
    /\ ret.info.attempts = 2

\* C9: after a rejected single reaction the shell of the reacting Single
\* and the position of its particle are those from before the reaction event
\* fired, and the particle is in the world.
C9_RolledBack ==
    (Returned("step") /\ ret.info.nospace /\ ret.info.fired = "Single") =>
        /\ ret.info.did \in DOMAIN domains
        /\ domains[ret.info.did].shell = ret.pre.domains[ret.info.did].shell
        /\ domains[ret.info.did].pid \in DOMAIN particles
        /\ particles[domains[ret.info.did].pid].pos
              = ret.pre.particles[domains[ret.info.did].pid].pos
        /\ domains[ret.info.did].particle.pos
              = ret.pre.domains[ret.info.did].particle.pos

\* C10: a stop(t) that directly follows a stop(t) that returned normally
\* returns normally and changes nothing of the simulator.
C10_StopTwice ==
    (/\ ret.op = "stop"
     /\ ret.last.op = "stop"
     /\ ret.last.arg = ret.arg
     /\ ret.last.status = "ok") =>
        /\ ret.status = "ok"
        /\ Sim = ret.pre

\* C10 happens: the first stop(t) has burst domains, the second followed.
C10_Witness ==
    /\ ret.op = "stop"
    /\ ret.last.op = "stop"
    /\ ret.last.arg = ret.arg
    /\ ret.last.status = "ok"
    /\ ret.last.changed
    /\ ret.status = "ok"

\* The time of the next event before the last call.
pre_next_time == ret.pre.scheduler[scheduler_top(ret.pre.scheduler)].time

\* C11: stop(t) with t at or after the time of the next scheduled event,
\* also with t equal to the current time when an event is scheduled at the
\* current time, or with t before the current time, raises an error and
\* leaves the time, the domains, the shells and the scheduler unchanged.
C11_StopRejected ==
    (/\ ret.op = "stop"
     /\ DOMAIN ret.pre.scheduler # {}
     /\ ret.arg >= pre_next_time \/ ret.arg < ret.pre.t) =>
        /\ ret.status = "raised"
        /\ t = ret.pre.t
        /\ domains = ret.pre.domains
        /\ containers = ret.pre.containers
        /\ scheduler = ret.pre.scheduler

\* stop(t) with t different from the current time, and at or after the time
\* of the next event or before the current time, is rejected likewise.
C11_StopRejectedOffNow ==
    (/\ ret.op = "stop"
     /\ DOMAIN ret.pre.scheduler # {}
     /\ ret.arg # ret.pre.t
     /\ ret.arg >= pre_next_time \/ ret.arg < ret.pre.t) =>
        /\ ret.status = "raised"
        /\ t = ret.pre.t
        /\ domains = ret.pre.domains
        /\ containers = ret.pre.containers
        /\ scheduler = ret.pre.scheduler

\* stop(t) was called at the current time with an event scheduled at the
\* current time, and returned.
C11_StopAtNow ==
    /\ ret.op = "stop"
    /\ DOMAIN ret.pre.scheduler # {}
    /\ ret.arg = ret.pre.t
    /\ ret.arg >= pre_next_time
    /\ ret.status = "ok"

exhaustion_reported ==
    ret.op = "step" /\ ret.err = "RuntimeError" /\ DOMAIN scheduler = {}

\* C13: step() raises the exhaustion error if the scheduler is empty, before
\* the pop or after firing, while particles remain in the world, and only
\* then: a step that leaves the world with no particle and no domain is not
\* reported as exhaustion.
C13_ExhaustionOnlyWithParticles ==
    ret.op = "step" =>
        (exhaustion_reported
            <=> (DOMAIN scheduler = {} /\ DOMAIN particles # {}))

\* The last particle of the world has decayed in a step, which raised.
C13_LastParticleDecayed ==
    /\ exhaustion_reported
    /\ ret.info.fired = "Single"
    /\ DOMAIN ret.pre.particles # {}
    /\ DOMAIN particles = {}
    /\ DOMAIN domains = {}

-----------------------------------------------------------------------------
(* Long runs of steps: the simulator is driven by step() alone, in worlds  *)
(* of two particles without reaction rules.                                *)

\* A world of two particles without rules.
TwoParticles(sid1, pos1, sid2, pos2) ==
    [particles |-> (1 :> Particle(pos1, sid1)) @@ (2 :> Particle(pos2, sid2)),
     network_rules |-> [uni |-> NoUni, bi |-> Repulsive],
     dissociation_retry_moves |-> 1]

\* Worlds of two particles too far apart for a Multi and too close for
\* either to get a shell of its minimum size, and a world of a mobile and
\* an immobile particle with space around them.
StepWorlds ==
    {TwoParticles(3, 95, 2, 147), TwoParticles(3, 95, 3, 157),
     TwoParticles(1, 100, 3, 152), TwoParticles(1, 100, 4, 400)}

MaxSteps == 12

InitSteps == (\E w \in StepWorlds : Construct(w)) /\ hdf5 = Closed

\* step() is called while the last call returned.
StepOnly ==
    /\ ncalls < MaxSteps
    /\ ret.status = "ok"
    /\ \E S \in step(Sim) : Return("step", 0, S)

SpecSteps == InitSteps /\ [][StepOnly]_vars

\* The limit of the count of steps that do not advance the time.
zero_steps_limit == Max2(Cardinality(DOMAIN scheduler) * 3, 10)

\* The time of the next event equals the current time.
next_event_now ==
    DOMAIN scheduler # {} /\ scheduler[scheduler_top(scheduler)].time = t

\* C14: a step after which the next event is at the current time adds one
\* to zero_steps, any other step that returns sets it to 0, and step()
\* raises as soon as the count reaches max(3 * scheduler size, 10): after a
\* step that returned the count is below the limit, and the count never
\* exceeds the number of steps taken since it was 0.
C14_ZeroStepsLimited ==
    ret.op = "step" =>
        /\ (ret.status = "ok" /\ next_event_now) =>
              /\ dt = 0
              /\ zero_steps = ret.pre.zero_steps + 1
              /\ zero_steps < zero_steps_limit
        /\ (ret.status = "ok" /\ ~ next_event_now) =>
              /\ dt # 0
              /\ zero_steps = 0
        /\ (ret.status = "raised" /\ next_event_now) =>
              /\ ret.err = "RuntimeError"
              /\ zero_steps = ret.pre.zero_steps + 1
              /\ zero_steps >= zero_steps_limit
        /\ zero_steps <= zero_steps_limit

\* C14 happens: the tenth step in a row that did not advance the time
\* raised.
C14_Witness ==
    /\ ret.op = "step"
    /\ ret.status = "raised"
    /\ ret.err = "RuntimeError"
    /\ next_event_now
    /\ ret.pre.zero_steps = 9
    /\ zero_steps = 10

\* A step that advanced the time has set a count of 1 back to 0.
C14_CountReset ==
    /\ Returned("step")
    /\ ret.pre.zero_steps = 1
    /\ zero_steps = 0
    /\ dt > 0

\* The last call was a step that fired the reaction of the Single of the top
\* event, with a rule of n products, and the products were placed.
single_reacted(n) ==
    /\ ret.op = "step"
    /\ ret.info.fired = "Single"
    /\ ret.info.event_type = "SINGLE_REACTION"
    /\ ret.info.products = n
    /\ ~ ret.info.nospace

\* C15: when step() fires the reaction of a Single whose rule has no
\* product, the particle is removed from the world, the Single from the
\* domain table and its shell from the containers, no domain is created,
\* and the scheduler holds exactly one event fewer than before the step,
\* the event of the Single.
C15_DecayRemoves ==
    single_reacted(0) =>
        /\ DOMAIN particles
              = (DOMAIN ret.pre.particles)
                   \ {ret.pre.domains[ret.info.did].pid}
        /\ DOMAIN domains = (DOMAIN ret.pre.domains) \ {ret.info.did}
        /\ DOMAIN containers
              = (DOMAIN ret.pre.containers)
                   \ {ret.pre.domains[ret.info.did].shell_id}
        /\ domain_id_generator = ret.pre.domain_id_generator
        /\ shell_id_generator = ret.pre.shell_id_generator
        /\ DOMAIN scheduler
              = (DOMAIN ret.pre.scheduler)
                   \ {ret.pre.domains[ret.info.did].event_id}
        /\ Cardinality(DOMAIN scheduler)
              = Cardinality(DOMAIN ret.pre.scheduler) - 1

\* C15 happens: a Single has decayed in a step that returned, with another
\* domain left in the scheduler.
C15_Witness ==
    /\ single_reacted(0)
    /\ ret.status = "ok"
    /\ ret.pre.domains[ret.info.did].pid \in DOMAIN ret.pre.particles
    /\ DOMAIN scheduler # {}

\* The last call was a step that fired an event other than a reaction of a
\* Single with diffusion coefficient 0.
immobile_fired ==
    /\ ret.op = "step"
    /\ ~ ret.pre.is_dirty
    /\ ret.info.fired = "Single"
    /\ ret.info.event_type # "SINGLE_REACTION"
    /\ ret.pre.domains[ret.info.did].particle.D = 0

\* When an event of an immobile Single that is not a reaction fires at a
\* finite time, the position of the particle and the shell are unchanged
\* and the Single has exactly one new event, at t + dt, with dt and
\* event_type drawn by determine_next_event.
C16_ImmobileRescheduled ==
    (immobile_fired /\ t < Inf) =>
        /\ ret.status = "ok"
        /\ particles[ret.pre.domains[ret.info.did].pid]
              = ret.pre.particles[ret.pre.domains[ret.info.did].pid]
        /\ domains[ret.info.did].shell = ret.pre.domains[ret.info.did].shell
        /\ containers[domains[ret.info.did].shell_id]
              = ret.pre.containers[domains[ret.info.did].shell_id]
        /\ events_of(ret.info.did) = {domains[ret.info.did].event_id}
        /\ domains[ret.info.did].event_id \notin DOMAIN ret.pre.scheduler
        /\ scheduler[domains[ret.info.did].event_id].time
              = Plus(t, domains[ret.info.did].dt)
        /\ domains[ret.info.did].last_time = t
        /\ [dt |-> domains[ret.info.did].dt,
            event_type |-> domains[ret.info.did].event_type]
              \in determine_next_event(Sim, domains[ret.info.did])

\* C16: when an event of an immobile Single that is not a reaction fires,
\* the position of the particle and the shell are unchanged and the Single
\* has exactly one new event at t + dt, with dt and event_type drawn by
\* determine_next_event; a Single scheduled at an infinite time is never
\* popped by step(): no step fires an event at an infinite time.
C16_ImmobileNeverPopped ==
    /\ C16_ImmobileRescheduled
    /\ (ret.op = "step" /\ ret.info.fired # "none") => t < Inf

\* An immobile Single without reaction was rescheduled at an infinite time,
\* and a later step has popped its event.
C16_PoppedAtInfinity ==
    /\ immobile_fired
    /\ ret.pre.domains[ret.info.did].dt = Inf
    /\ ret.pre.scheduler[ret.pre.domains[ret.info.did].event_id].time = Inf
    /\ t = Inf

\* The domain formed last and its two Singles, after a step in which
\* form_pair accepted.
formed_pair == domains[domain_id_generator - 1]

\* The domains before the step were Singles only, as many as there are
\* domains when form_pair is called: a step that finds the simulator dirty
\* creates one Single for each particle first.
singles_before ==
    IF ret.pre.is_dirty THEN Cardinality(DOMAIN ret.pre.particles)
    ELSE Cardinality(DOMAIN ret.pre.domains)

only_singles_before ==
    ret.pre.is_dirty
       \/ \A d \in DOMAIN ret.pre.domains : ret.pre.domains[d].kind = "Single"

\* C17: when form_pair accepts, the two Singles are removed from the domain
\* table and the shell containers and have no scheduler entry, and exactly
\* one Pair is added, with a fresh domain id, a fresh shell and one event
\* at t + pair.dt, pair.dt >= 0: of two Singles one Pair is made, and the
\* domain table has one domain fewer.
C17_PairReplacesSingles ==
    (ret.op = "step" /\ ret.info.formed = "Pair") =>
        /\ ret.status = "ok"
        /\ (domain_id_generator - 1) \in DOMAIN domains
        /\ formed_pair.kind = "Pair"
        /\ formed_pair.domain_id = domain_id_generator - 1
        /\ formed_pair.domain_id >= ret.pre.domain_id_generator
        /\ formed_pair.shell_id = shell_id_generator - 1
        /\ formed_pair.shell_id >= ret.pre.shell_id_generator
        /\ {x \in DOMAIN containers : containers[x].did = formed_pair.domain_id}
              = {formed_pair.shell_id}
        /\ containers[formed_pair.shell_id] = formed_pair.shell
        /\ formed_pair.single1.domain_id = ret.info.did
        /\ formed_pair.single2.domain_id # ret.info.did
        /\ \A s \in {formed_pair.single1, formed_pair.single2} :
              /\ s.domain_id \notin DOMAIN domains
              /\ s.shell_id \notin DOMAIN containers
              /\ events_of(s.domain_id) = {}
              /\ s.event_id \notin DOMAIN scheduler
        /\ events_of(formed_pair.domain_id) = {formed_pair.event_id}
        /\ scheduler[formed_pair.event_id].time = Plus(t, formed_pair.dt)
        /\ formed_pair.dt >= 0
        /\ {d \in DOMAIN domains : d >= ret.pre.domain_id_generator
                                   /\ domains[d].kind = "Pair"}
              = {formed_pair.domain_id}
        /\ only_singles_before =>
              /\ Cardinality(DOMAIN domains) = singles_before - 1
              /\ DOMAIN domains \cup {formed_pair.single1.domain_id,
                                      formed_pair.single2.domain_id}
                    = IF ret.pre.is_dirty
                      THEN ret.pre.domain_id_generator..formed_pair.domain_id
                      ELSE DOMAIN ret.pre.domains \cup {formed_pair.domain_id}

\* C17 happens: a Single that fired has formed a Pair with a Single that
\* was scheduled at a later time, whose event was cancelled.
C17_Witness ==
    /\ Returned("step")
    /\ ret.info.formed = "Pair"
    /\ ~ ret.pre.is_dirty
    /\ formed_pair.single2.domain_id \in DOMAIN ret.pre.domains
    /\ ret.pre.domains[formed_pair.single2.domain_id].dt > 0

\* The simulator a step starts from: initialize() is called first when the
\* simulator is dirty.
step_start == IF ret.pre.is_dirty THEN initialize(ret.pre) ELSE ret.pre

\* The events of a scheduler that come first: no event is earlier, and none
\* of the same time was added before.
first_events(sch) ==
    {e \in DOMAIN sch :
        \A f \in (DOMAIN sch) \ {e} :
            \/ sch[e].time < sch[f].time
            \/ sch[e].time = sch[f].time /\ e < f}

removed_domains == (DOMAIN ret.pre.domains) \ DOMAIN domains

\* The domains in the table now that were not in it before the last call,
\* with an id given out before the call: domains that had been removed.
restored_domains ==
    {d \in (DOMAIN domains) \ DOMAIN ret.pre.domains :
        d < ret.pre.domain_id_generator}

\* No call of remove_domain finds its domain missing from the table, and
\* after a call that returned no removed domain has a shell in the
\* containers or an event in the scheduler.
C19_RemovedLeavesNothing ==
    /\ ret.err # "KeyError"
    /\ ret.status = "ok" =>
          \A d \in removed_domains :
             /\ \A x \in DOMAIN containers : containers[x].did # d
             /\ \A x \in DOMAIN shell_list(ret.pre.domains[d]) :
                   x \notin DOMAIN containers
             /\ ret.op # "reset" => events_of(d) = {}

\* C19: every domain is destroyed exactly once: a domain removed from the
\* table is removed with its shells and its event, remove_domain is never
\* called on a domain that is not in the table, and a domain that was
\* removed is not in the table again later.
C19_DestroyedOnce ==
    /\ C19_RemovedLeavesNothing
    /\ restored_domains = {}
    /\ ret.info.rejected = 0

\* A Single that was removed from the table when its Pair was formed is in
\* the table again after the Pair was burst or fired.
C19_SingleRestored ==
    /\ ret.status = "ok"
    /\ \E d \in restored_domains :
          /\ domains[d].kind = "Single"
          /\ \E p \in removed_domains :
                /\ ret.pre.domains[p].kind = "Pair"
                /\ ret.pre.domains[p].single1.domain_id = d

\* The last step carried out a reaction: of a Single, of a Single of a
\* Pair, of the two particles of a Pair, or in a Multi.
step_reacted ==
    \/ /\ ret.info.fired \in {"Single", "Pair"}
       /\ ret.info.event_type = "SINGLE_REACTION"
       /\ ret.info.products >= 0
       /\ ~ ret.info.nospace
    \/ /\ ret.info.fired = "Pair"
       /\ ret.info.event_type = "IV_REACTION"
    \/ /\ ret.info.fired = "Multi"
       /\ ret.info.event_type \in {"MULTI_UNIMOLECULAR_REACTION",
                                   "MULTI_BIMOLECULAR_REACTION"}

\* The two particles of the Pair that fired have reacted to nothing.
pair_vanished ==
    /\ ret.info.fired = "Pair"
    /\ ret.info.event_type = "IV_REACTION"
    /\ ret.pre.domains[ret.info.did].rt.products = << >>

\* The counters after a step that returned, with what the step did:
\* reaction_events has grown by one if counted and rejected_moves by one if
\* a reaction was rejected.
counters_follow(counted) ==
    /\ reaction_events
          = ret.pre.reaction_events + (IF counted THEN 1 ELSE 0)
    /\ rejected_moves
          = ret.pre.rejected_moves + (IF ret.info.nospace THEN 1 ELSE 0)

\* C20: a step adds exactly one to reaction_events for a reaction it
\* carries out (of a Single with 0, 1 or 2 products, of a Pair with 0 or 1
\* product, in a Multi) and leaves it unchanged at escapes, bursts and
\* rejected reactions; rejected_moves grows, by one, only when a reaction
\* is rejected; stop() changes neither.
C20_ReactionsCounted ==
    /\ Returned("step") => counters_follow(step_reacted)
    /\ Returned("stop") =>
          /\ reaction_events = ret.pre.reaction_events
          /\ rejected_moves = ret.pre.rejected_moves

\* The same with the reaction of a Pair without product not counted.
C20_CountedButPairVanish ==
    /\ Returned("step") => counters_follow(step_reacted /\ ~ pair_vanished)
    /\ Returned("stop") =>
          /\ reaction_events = ret.pre.reaction_events
          /\ rejected_moves = ret.pre.rejected_moves

\* The two particles of a Pair have annihilated in a step that returned,
\* and reaction_events is what it was.
C20_PairVanished ==
    /\ Returned("step")
    /\ pair_vanished
    /\ Cardinality(DOMAIN particles)
          = Cardinality(DOMAIN ret.pre.particles) - 2
    /\ reaction_events = ret.pre.reaction_events

\* ---------------------------------------------------------------------
\* Part I.  Persistence of the ecell4 package (src/ecell4/ecell4)
\*
\* An HDF5 file is a record.  An attribute, a group or a dataset that may
\* be missing is a sequence of length 0 (missing) or 1 (holding the
\* value), so that attrs.get(key, default) and group.get(name, None) are
\* modelled as the code uses them.  A component instance is a record of
\* its class and its attributes; an attribute that Python leaves None is
\* the empty sequence.
\* ---------------------------------------------------------------------

APPLICATION == "ecell4"

\* The component classes with a load() and a save() of their own that can
\* be saved and loaded without a registry.
Classes == {"Component", "Space", "ParticleSpace", "Model", "State", "World"}

\* Component.typename: the class name in lower case.
typename(cls) ==
    CASE cls = "Component" -> "component"
      [] cls = "Space" -> "space"
      [] cls = "ParticleSpace" -> "particlespace"
      [] cls = "Model" -> "model"
      [] cls = "State" -> "state"
      [] cls = "World" -> "world"

\* cls.VERSION; ParticleSpace inherits the one of Space.
VERSION(cls) == IF cls = "Component" THEN <<0, 0, 0>> ELSE <<0, 0, 1>>

\* cls.SUPPORTED_VERSIONS
SUPPORTED_VERSIONS(cls) == {VERSION(cls)}

\* cls(): the instance the initializers build without arguments.
new_instance(cls) ==
    [cls |-> cls, name |-> << >>, time |-> 0, particles |-> << >>]

\* A path at which no file exists.
NoFile ==
    [exists |-> FALSE, application |-> << >>, format |-> << >>,
     version |-> << >>, time |-> << >>, metadata |-> << >>,
     particles |-> << >>, spaces |-> FALSE]

\* The outcome of a load or a save: the file, the instance, the exception.
Outcome(f, self, err) == [file |-> f, self |-> self, err |-> err]

\* find_hdf5(path, new): the file at the path, created when new is set.
find_hdf5(f, new) ==
    IF f.exists THEN Outcome(f, << >>, "none")
    ELSE IF new THEN Outcome([NoFile EXCEPT !.exists = TRUE], << >>, "none")
    ELSE Outcome(f, << >>, "IOError")

\* Component.load
component_load(self, f, strict_version) ==
    IF find_hdf5(f, FALSE).err # "none"
    THEN Outcome(f, self, find_hdf5(f, FALSE).err)
    ELSE IF (IF f.application = << >> THEN "(empty)" ELSE f.application[1])
                # APPLICATION
    THEN Outcome(f, self, "FileError")
    ELSE IF (IF f.format = << >> THEN "(empty)" ELSE f.format[1])
                # typename(self.cls)
    THEN Outcome(f, self, "FileError")
    ELSE IF strict_version /\ f.version = << >>
    THEN Outcome(f, self, "FileError")
    ELSE IF strict_version /\ f.version[1] \notin SUPPORTED_VERSIONS(self.cls)
    THEN Outcome(f, self, "FileError")
    ELSE IF f.metadata # << >>
    THEN Outcome(f, [self EXCEPT !.name = f.metadata[1].name], "none")
    ELSE Outcome(f, self, "none")

\* Component.save, from the check of the format on: d is the data root
\* with its application attribute set.
component_save_format(self, d, strict_version) ==
    IF (IF d.format = << >> THEN typename(self.cls) ELSE d.format[1])
           # typename(self.cls)
    THEN Outcome(d, self, "FileError")
    ELSE IF d.version # << >> /\ strict_version
            /\ d.version[1] \notin SUPPORTED_VERSIONS(self.cls)
    THEN Outcome([d EXCEPT !.format = <<typename(self.cls)>>], self,
                 "FileError")
    ELSE Outcome([d EXCEPT
                    !.format = <<typename(self.cls)>>,
                    !.version = IF d.version = << >>
                                THEN <<VERSION(self.cls)>> ELSE d.version,
                    !.metadata = <<[name |-> self.name]>>],
                 self, "none")

\* Component.save
component_save(self, f, strict_version) ==
    IF find_hdf5(f, TRUE).file.application = << >>
    THEN component_save_format(
             self,
             [find_hdf5(f, TRUE).file EXCEPT !.application = <<APPLICATION>>],
             strict_version)
    ELSE IF f.application[1] # APPLICATION
    THEN Outcome(f, self, "FileError")
    ELSE component_save_format(self, f, strict_version)

\* Model.load and State.load
model_load(self, f, strict_version) == component_load(self, f, TRUE)

\* Model.save and State.save
model_save(self, f, strict_version) == component_save(self, f, TRUE)

\* Space.load
space_load(self, f, strict_version) ==
    IF component_load(self, f, TRUE).err # "none"
    THEN component_load(self, f, TRUE)
    ELSE Outcome(f,
                 [component_load(self, f, TRUE).self EXCEPT
                    !.time = IF f.time = << >> THEN 0 ELSE f.time[1]],
                 "none")

\* Space.save
space_save(self, f, strict_version) ==
    IF component_save(self, f, TRUE).err # "none"
    THEN component_save(self, f, TRUE)
    ELSE Outcome([component_save(self, f, TRUE).file EXCEPT
                    !.time = <<self.time>>],
                 self, "none")

\* The values load() reads from the group of particles: a missing dataset
\* reads as the zeros of the schema of n_particles particles.
dataset_values(g) ==
    [id |-> IF g.id = << >>
            THEN [i \in 1..g.n_particles |-> 0] ELSE g.id[1],
     species_id |-> IF g.species_id = << >>
                    THEN [i \in 1..g.n_particles |-> 0] ELSE g.species_id[1],
     position |-> IF g.position = << >>
                  THEN [i \in 1..g.n_particles |-> <<0, 0, 0>>]
                  ELSE g.position[1]]

\* zip(*dataset_values) into CoordinatedParticle: as many particles as the
\* shortest dataset holds.
zip_particles(v) ==
    [i \in 1..Min2(Len(v.id), Min2(Len(v.species_id), Len(v.position))) |->
        [id |-> v.id[i], species_id |-> v.species_id[i],
         position |-> v.position[i]]]

\* ParticleSpace.load
particlespace_load(self, f, strict_version) ==
    IF space_load(self, f, TRUE).err # "none"
    THEN space_load(self, f, TRUE)
    ELSE Outcome(f,
                 [space_load(self, f, TRUE).self EXCEPT
                    !.particles =
                        IF f.particles = << >> THEN << >>
                        ELSE zip_particles(dataset_values(f.particles[1]))],
                 "none")

\* The datasets save() writes for a list of particles: the ids and the
\* species ids as int32, the positions as float64.  The integers of the
\* model fit 32 bits and are stored as they are.
particle_datasets(ps) ==
    [n_particles |-> Len(ps),
     id |-> <<[i \in 1..Len(ps) |-> ps[i].id]>>,
     species_id |-> <<[i \in 1..Len(ps) |-> ps[i].species_id]>>,
     position |-> <<[i \in 1..Len(ps) |-> ps[i].position]>>]

\* ParticleSpace.save: an existing group of particles is deleted and a new
\* one is created.  The source notes that an array of length 0 may break:
\* for an empty list the datasets are written, or the writing raises and
\* leaves the new group without datasets.
particlespace_save(self, f, strict_version) ==
    IF space_save(self, f, TRUE).err # "none"
    THEN {space_save(self, f, TRUE)}
    ELSE {Outcome([space_save(self, f, TRUE).file EXCEPT
                     !.particles = <<particle_datasets(self.particles)>>],
                  self, "none")}
         \cup
         (IF Len(self.particles) = 0
          THEN {Outcome([space_save(self, f, TRUE).file EXCEPT
                            !.particles =
                                <<[n_particles |-> 0, id |-> << >>,
                                   species_id |-> << >>,
                                   position |-> << >>]>>],
                        self, "ValueError")}
          ELSE {})

\* World.load, of a world without spaces in the file.
world_load(self, f, strict_version) ==
    IF component_load(self, f, TRUE).err # "none"
    THEN component_load(self, f, TRUE)
    ELSE IF ~ f.spaces
    THEN Outcome(f, component_load(self, f, TRUE).self, "FileError")
    ELSE component_load(self, f, TRUE)

\* World.save, of a world without spaces.
world_save(self, f, strict_version) ==
    IF component_save(self, f, TRUE).err # "none"
    THEN component_save(self, f, TRUE)
    ELSE Outcome([component_save(self, f, TRUE).file EXCEPT !.spaces = TRUE],
                 self, "none")

\* instance.load(file, strict_version), by the class of the instance.
load(self, f, strict_version) ==
    CASE self.cls = "Component" -> component_load(self, f, strict_version)
      [] self.cls = "Space" -> space_load(self, f, strict_version)
      [] self.cls = "ParticleSpace" -> particlespace_load(self, f, strict_version)
      [] self.cls \in {"Model", "State"} -> model_load(self, f, strict_version)
      [] self.cls = "World" -> world_load(self, f, strict_version)

\* instance.save(file, strict_version), by the class of the instance.
save(self, f, strict_version) ==
    CASE self.cls = "Component" -> {component_save(self, f, strict_version)}
      [] self.cls = "Space" -> {space_save(self, f, strict_version)}
      [] self.cls = "ParticleSpace" -> particlespace_save(self, f, strict_version)
      [] self.cls \in {"Model", "State"} -> {model_save(self, f, strict_version)}
      [] self.cls = "World" -> {world_save(self, f, strict_version)}

\* cls.Load(file, strict_version)
Load(cls, f, strict_version) == load(new_instance(cls), f, strict_version)

\* ---------------------------------------------------------------------
\* The driver of the persistence: a file, and calls of save and Load on it
\* ---------------------------------------------------------------------

MaxFileCalls == 3

\* A version no class supports.
UnknownVersion == <<0, 0, 2>>

Names == {"foo", "bar"}

Times == {0, 5}

ParticleLists ==
    {<< >>,
     <<[id |-> 7, species_id |-> 1, position |-> <<1, 2, 3>>]>>,
     <<[id |-> 7, species_id |-> 1, position |-> <<1, 2, 3>>],
       [id |-> 3, species_id |-> 2, position |-> <<4, 0, 6>>]>>,
     <<[id |-> 3, species_id |-> 2, position |-> <<4, 0, 6>>],
       [id |-> 7, species_id |-> 1, position |-> <<1, 2, 3>>]>>}

\* The instances that are saved.
Instances ==
    {[cls |-> c, name |-> <<n>>, time |-> 0, particles |-> << >>] :
        c \in {"Component", "Model", "State", "World"}, n \in Names}
    \cup
    {[cls |-> "Space", name |-> <<n>>, time |-> tm, particles |-> << >>] :
        n \in Names, tm \in Times}
    \cup
    {[cls |-> "ParticleSpace", name |-> <<n>>, time |-> tm, particles |-> ps] :
        n \in Names, tm \in Times, ps \in ParticleLists}

\* The files found before the first call: none, or one written by some
\* application, with or without a version and a group of metadata.
FilesOf(c) ==
    {[exists |-> TRUE, application |-> <<a>>, format |-> <<typename(c)>>,
      version |-> v, time |-> << >>, metadata |-> m, particles |-> << >>,
      spaces |-> (c = "World")] :
        a \in {APPLICATION, "other"},
        v \in {<< >>, <<VERSION(c)>>, <<UnknownVersion>>},
        m \in {<< >>, <<[name |-> <<"baz">>]>>}}

FileInputs == {NoFile} \cup UNION {FilesOf(c) : c \in Classes}

\* No call was made yet.
NoCall ==
    [op |-> "none", cls |-> "none", strict_version |-> TRUE,
     status |-> "ok", err |-> "none"]

FileCall(op, cls, strict_version, err) ==
    [op |-> op, cls |-> cls, strict_version |-> strict_version,
     status |-> IF err = "none" THEN "ok" ELSE "raised", err |-> err]

\* The file as it is opened, the instance of the last call, the call, the
\* file before the call, the instance the last save wrote (none when the
\* last save raised), and whether that save found a group of particles of
\* another length.
Opened(f) ==
    [opened |-> TRUE, file |-> f, self |-> new_instance("Component"),
     call |-> NoCall, before |-> f, saved |-> << >>, resized |-> FALSE,
     ncalls |-> 0]

egfrd_vars ==
    <<t, dt, step_counter, zero_steps, rejected_moves, reaction_events,
      is_dirty, user_max_shell_size, domains, containers, scheduler,
      event_id_generator, domain_id_generator, shell_id_generator,
      particles, particle_id_generator, network_rules,
      dissociation_retry_moves, ret, ncalls>>

InitFiles == Construct(LoneWorld) /\ \E f \in FileInputs : hdf5 = Opened(f)

\* instance.save(path, strict_version)
Save ==
    /\ hdf5.ncalls < MaxFileCalls
    /\ \E self \in Instances, strict_version \in BOOLEAN :
         \E o \in save(self, hdf5.file, strict_version) :
            hdf5' = [hdf5 EXCEPT
                       !.file = o.file,
                       !.self = o.self,
                       !.call = FileCall("save", self.cls, strict_version, o.err),
                       !.before = hdf5.file,
                       !.saved = IF o.err = "none" THEN <<self>> ELSE << >>,
                       !.resized = /\ o.err = "none"
                                   /\ hdf5.file.particles # << >>
                                   /\ hdf5.file.particles[1].n_particles
                                        # Len(self.particles),
                       !.ncalls = @ + 1]
    /\ UNCHANGED egfrd_vars

\* cls.Load(path, strict_version)
LoadCall ==
    /\ hdf5.ncalls < MaxFileCalls
    /\ \E cls \in Classes, strict_version \in BOOLEAN :
         hdf5' = [hdf5 EXCEPT
                    !.file = Load(cls, hdf5.file, strict_version).file,
                    !.self = Load(cls, hdf5.file, strict_version).self,
                    !.call = FileCall("Load", cls, strict_version,
                                      Load(cls, hdf5.file, strict_version).err),
                    !.before = hdf5.file,
                    !.ncalls = @ + 1]
    /\ UNCHANGED egfrd_vars

NextFiles == Save \/ LoadCall

SpecFiles == InitFiles /\ [][NextFiles]_vars

\* ---------------------------------------------------------------------
\* C21: save followed by Load with the same class is a round trip
\* ---------------------------------------------------------------------

\* The last call is a Load of the class of the instance the last save
\* wrote.
loaded_after_save ==
    /\ hdf5.opened
    /\ hdf5.saved # << >>
    /\ hdf5.call.op = "Load"
    /\ hdf5.call.cls = hdf5.saved[1].cls

\* The attributes of the saved instance are those of the loaded one: the
\* name, the time of a Space, the particles of a ParticleSpace in order.
restored(loaded, saved) ==
    /\ loaded.name = saved.name
    /\ saved.cls \in {"Space", "ParticleSpace"} => loaded.time = saved.time
    /\ saved.cls = "ParticleSpace" => loaded.particles = saved.particles

C21_RoundTripWhenLoaded ==
    loaded_after_save =>
        IF hdf5.call.status = "ok"
        THEN restored(hdf5.self, hdf5.saved[1])
        ELSE /\ hdf5.call.cls = "Component"
             /\ hdf5.call.strict_version
             /\ hdf5.file.version = <<UnknownVersion>>

\* A ParticleSpace was loaded after its save replaced a group of particles
\* of another length.
C21_ResizedAndLoaded ==
    /\ loaded_after_save
    /\ hdf5.call.status = "ok"
    /\ hdf5.resized
    /\ Len(hdf5.self.particles) = 2

\* A Load raised after a save of the same class that returned.
C21_LoadRaisedAfterSave ==
    /\ loaded_after_save
    /\ hdf5.call.status = "raised"

\* ---------------------------------------------------------------------
\* C22: the version of a file is checked only under strict_version
\* ---------------------------------------------------------------------

\* The last call is a Load from an existing file.
loaded_from_file == hdf5.opened /\ hdf5.call.op = "Load" /\ hdf5.before.exists

\* The file does not carry the application and the format of the class.
wrong_application_or_format(f, cls) ==
    \/ f.application # <<APPLICATION>>
    \/ f.format # <<typename(cls)>>

\* The file carries no version, or one the class does not support.
unsupported_version(f, cls) ==
    \/ f.version = << >>
    \/ f.version[1] \notin SUPPORTED_VERSIONS(cls)

\* The outcome of the last Load when the version is checked exactly under
\* the flag strict: a wrong application or format raises FileError, an
\* unsupported version raises FileError under the flag, and every other
\* file is loaded (a world file needs its group of spaces).
load_checks_version(strict) ==
    IF wrong_application_or_format(hdf5.before, hdf5.call.cls)
    THEN hdf5.call.err = "FileError"
    ELSE IF strict /\ unsupported_version(hdf5.before, hdf5.call.cls)
    THEN hdf5.call.err = "FileError"
    ELSE IF hdf5.call.cls = "World" /\ ~ hdf5.before.spaces
    THEN hdf5.call.err = "FileError"
    ELSE hdf5.call.status = "ok"

\* C22: Load(file, strict_version) raises FileError for a file whose
\* version is not supported only when strict_version is true, and loads
\* such a file when strict_version is false, for Component and for every
\* subclass; a wrong application or format is rejected in any case.
C22_StrictVersionOnly ==
    loaded_from_file => load_checks_version(hdf5.call.strict_version)

\* What holds of C22: Component follows the argument, and every subclass
\* checks the version whatever the argument is.
C22_SubclassesAlwaysStrict ==
    loaded_from_file =>
        load_checks_version(hdf5.call.cls = "Component"
                                => hdf5.call.strict_version)

\* Component loaded a file of an unsupported version without the flag.
C22_ComponentLoadedUnsupported ==
    /\ loaded_from_file
    /\ hdf5.call.cls = "Component"
    /\ ~ hdf5.call.strict_version
    /\ unsupported_version(hdf5.before, "Component")
    /\ hdf5.call.status = "ok"

\* A subclass raised FileError on the version although strict_version was
\* false.
C22_NonStrictRejected ==
    /\ loaded_from_file
    /\ hdf5.call.cls # "Component"
    /\ ~ hdf5.call.strict_version
    /\ ~ wrong_application_or_format(hdf5.before, hdf5.call.cls)
    /\ hdf5.call.err = "FileError"
    /\ hdf5.before.spaces = (hdf5.call.cls = "World")

\* ---------------------------------------------------------------------
\* C23: form_pair gives up without touching anything
\* ---------------------------------------------------------------------

\* The last call ran form_pair.
pair_tried == ret.info.pair.tried

\* (a) the minimal shell with its margin does not fit under the maximum
pair_too_large ==
    ret.info.pair.z.min_shell_size_with_margin
        >= ret.info.pair.z.max_shell_size

\* (b) the minimal shell of a burst Single lies within the minimal shell
\* with margin of the Pair
pair_squeezed_by_burst ==
    ret.info.pair.burst_distance
        <= ret.info.pair.z.min_shell_size_with_margin

\* (c) the shell size the closest domain allows is not above the minimum
\* with margin
pair_squeezed ==
    ret.info.pair.shell_size <= ret.info.pair.z.min_shell_size_with_margin

\* (d) the shell size is below 1.3 times the larger reach of the Singles
pair_singles_better == ret.info.pair.singles_are_better

\* C23: whenever one of (a) the minimum with margin reaching the maximum,
\* (b) a burst Single within the minimum with margin of the centre of
\* mass, (c) a grown shell size not above the minimum with margin, or (d)
\* a grown shell size below 1.3 times the larger reach of the two Singles
\* holds, form_pair returns no Pair and leaves the domains, the shells,
\* the scheduler and the id generators as they were.
C23_NoPairNoChange ==
    (pair_tried /\ (pair_too_large \/ pair_squeezed_by_burst
                      \/ pair_squeezed \/ pair_singles_better)) =>
        /\ ~ ret.info.pair.raised
        /\ ret.info.formed # "Pair"
        /\ ret.info.pair.unchanged

\* form_pair gave up for (c) alone: the Pair fitted under the maximum, no
\* burst Single was near and the Singles were not better, but the closest
\* domain left too little space.
C23_Witness ==
    /\ pair_tried
    /\ ~ pair_too_large /\ ~ pair_squeezed_by_burst /\ ~ pair_singles_better
    /\ pair_squeezed
    /\ ret.info.formed # "Pair"
    /\ ret.info.pair.unchanged

\* form_pair gave up for (a), for (b) without (a), and with (d) holding.
C23_TooLarge == pair_tried /\ pair_too_large

C23_SqueezedByBurst == pair_tried /\ ~ pair_too_large /\ pair_squeezed_by_burst

C23_SinglesBetter ==
    pair_tried /\ ~ pair_too_large /\ ~ pair_squeezed_by_burst
        /\ pair_singles_better

\* ---------------------------------------------------------------------
\* C24: the shell of a Pair that form_pair creates
\* ---------------------------------------------------------------------

\* form_pair returned a Pair in the last call; the Pair is still in the
\* table of domains.
pair_formed ==
    /\ pair_tried
    /\ ret.info.formed = "Pair"
    /\ ret.info.pair.pair_id \in DOMAIN domains

\* The shell of the Pair that form_pair created.
formed_shell == domains[ret.info.pair.pair_id].shell

\* The shells of the other domains.
other_shells ==
    {containers[x] : x \in {y \in DOMAIN containers :
                               containers[y].did # ret.info.pair.pair_id}}

\* C24: a Pair that form_pair creates has a shell size between the
\* minimal shell size with margin and the maximal shell size, and smaller
\* than the distance from its centre of mass to the shell of every other
\* domain; form_pair never fails an assertion.
C24_PairShellWithinLimits ==
    /\ pair_tried => ~ ret.info.pair.raised
    /\ pair_formed =>
        /\ formed_shell.pos = ret.info.pair.z.com
        /\ ret.info.pair.z.min_shell_size_with_margin <= formed_shell.radius
        /\ formed_shell.radius <= ret.info.pair.z.max_shell_size
        /\ formed_shell.radius < ret.info.pair.closest_distance
        /\ \A sh \in other_shells :
              formed_shell.radius < shell_distance(sh, formed_shell.pos)

\* A Pair was formed with another domain in the world, the closest to its
\* centre of mass.
C24_Witness ==
    /\ pair_formed
    /\ other_shells # {}
    /\ ret.info.pair.closest # 0
    /\ ret.info.pair.closest_distance < Inf

\* ---------------------------------------------------------------------
\* C25: form_multi needs a neighbour within the shell of a Multi
\* ---------------------------------------------------------------------

\* The last call ran form_multi.
multi_tried == ret.info.multi.tried

\* particle_radius * (1 + MULTI_SHELL_FACTOR) of the firing Single
multi_min_shell == multi_shell_size(ret.info.multi.single.particle.radius)

\* The neighbours of the firing Single whose shells are within that
\* distance of its position, in the order of the list.
RECURSIVE neighbors_from(_)
neighbors_from(i) ==
    IF i > Len(ret.info.multi.neighbors) THEN << >>
    ELSE (IF ret.info.multi.dists[i] <= multi_min_shell
          THEN <<ret.info.multi.neighbors[i]>> ELSE << >>)
         \o neighbors_from(i + 1)

\* C25: form_multi forms or extends a Multi exactly when the shell of the
\* nearest burst neighbour is within particle_radius * (1 +
\* MULTI_SHELL_FACTOR) of the position of the firing Single; otherwise it
\* returns nothing and changes nothing; the neighbours within that
\* distance, and no others, are handed to the Multi.
C25_MultiOnlyWhenNear ==
    multi_tried =>
        /\ ~ ret.info.multi.raised
        /\ \A i \in 1..Len(ret.info.multi.dists) :
              ret.info.multi.dists[1] <= ret.info.multi.dists[i]
        /\ IF ret.info.multi.dists[1] > multi_min_shell
           THEN /\ ret.info.formed # "Multi"
                /\ ret.info.multi.unchanged
                /\ ret.info.handed = << >>
           ELSE /\ ret.info.formed = "Multi"
                /\ ret.info.handed = neighbors_from(1)

\* form_multi gave up: the nearest neighbour was beyond the distance.
C25_Witness ==
    /\ multi_tried
    /\ ret.info.multi.dists[1] > multi_min_shell
    /\ ret.info.formed # "Multi"

\* A Multi was formed or extended.
C25_Formed ==
    /\ multi_tried
    /\ ret.info.formed = "Multi"
    /\ ret.info.multi.dists[1] <= multi_min_shell

\* A neighbour beyond the distance was left out of a Multi that was formed.
C25_LeftOut ==
    /\ multi_tried
    /\ ret.info.formed = "Multi"
    /\ Len(ret.info.handed) < Len(ret.info.multi.neighbors)

\* ---------------------------------------------------------------------
\* C26: what form_multi leaves of the Singles it absorbs
\* ---------------------------------------------------------------------

\* form_multi returned a Multi in the last call.
multi_formed ==
    /\ multi_tried
    /\ ret.info.formed = "Multi"
    /\ ret.info.multi.multi_id \in DOMAIN domains

\* The Multi that form_multi returned.
the_multi == domains[ret.info.multi.multi_id]

\* The Singles that were in the table when form_multi was called and whose
\* particles are in the Multi now: the firing Single and the absorbed ones.
absorbed_singles ==
    {ret.info.multi.single} \cup
    {ret.info.multi.domains[d] :
        d \in {x \in DOMAIN ret.info.multi.domains :
                 /\ ret.info.multi.domains[x].kind = "Single"
                 /\ ret.info.multi.domains[x].pid \in DOMAIN the_multi.particles}}

\* The shells of the Multi around the position a Single had.
shells_around(single) ==
    {x \in DOMAIN the_multi.shell_list :
        the_multi.shell_list[x].pos = single.particle.pos}

\* C26: after form_multi returned a Multi, every absorbed Single is out of
\* the table of domains and of the scheduler and its shell is out of the
\* containers; its particle is in the Multi, with one shell of radius
\* particle_radius * (1 + MULTI_SHELL_FACTOR) around it that carries the
\* domain id of the Multi; the Multi has one event in the scheduler, a new
\* one for a new Multi and its old one, moved to t + dt, for a reused one.
C26_AbsorbedSinglesGone ==
    multi_formed =>
        /\ the_multi.kind = "Multi"
        /\ \A single \in absorbed_singles :
              /\ single.domain_id \notin DOMAIN domains
              /\ events_of(single.domain_id) = {}
              /\ single.event_id \notin DOMAIN scheduler
              /\ single.shell_id \notin DOMAIN containers
              /\ single.pid \in DOMAIN the_multi.particles
              /\ Cardinality(shells_around(single)) = 1
              /\ \A x \in shells_around(single) :
                    /\ the_multi.shell_list[x].radius
                          = multi_shell_size(single.particle.radius)
                    /\ the_multi.shell_list[x].did = the_multi.domain_id
                    /\ x \in DOMAIN containers
                    /\ containers[x] = the_multi.shell_list[x]
        /\ Cardinality(DOMAIN the_multi.shell_list)
              = Cardinality(DOMAIN the_multi.particles)
        /\ \A d \in DOMAIN domains :
              domains[d].kind = "Single"
                  => domains[d].pid \notin DOMAIN the_multi.particles
        /\ events_of(the_multi.domain_id) = {the_multi.event_id}
        /\ scheduler[the_multi.event_id].time = Plus(t, the_multi.dt)
        /\ IF ret.info.multi.reused = 0
           THEN the_multi.event_id >= ret.info.multi.event_id_generator
           ELSE the_multi.event_id
                   = ret.info.multi.domains[ret.info.multi.reused].event_id

\* A new Multi absorbed the firing Single and two more.
C26_Witness ==
    /\ multi_formed
    /\ ret.info.multi.reused = 0
    /\ Cardinality(absorbed_singles) = 3
    /\ Cardinality(DOMAIN the_multi.particles) = 3

\* A Multi that was there absorbed the firing Single.
C26_Reused ==
    /\ multi_formed
    /\ ret.info.multi.reused # 0

\* ---------------------------------------------------------------------
\* C27: add_to_multi_recursive comes to an end
\* ---------------------------------------------------------------------

\* C27: add_to_multi_recursive returns: no particle is added to a Multi
\* twice, and the recursion is never deeper than the number of particles
\* in the world.
C27_RecursionBounded ==
    multi_tried =>
        /\ ~ ret.info.multi.raised
        /\ ret.info.depth = 0
        /\ \A i \in 1..Len(ret.info.added) : \A j \in 1..Len(ret.info.added) :
              ret.info.added[i] = ret.info.added[j] => i = j
        /\ Len(ret.info.added) <= Cardinality(DOMAIN particles)
        /\ ret.info.max_depth <= Cardinality(DOMAIN particles)

\* A Single that add_to_multi_recursive absorbed brought in a neighbour of
\* its own: the recursion went two calls deep.
C27_Witness ==
    /\ multi_formed
    /\ ret.info.max_depth = 2
    /\ Len(ret.info.added) = 3

\* ---------------------------------------------------------------------
\* C28: merging a Multi into another
\* ---------------------------------------------------------------------

\* The last call merged a Multi into another and returned.
multis_merged == ret.status = "ok" /\ ret.info.merged # << >>

\* C28: after merge_multis(A, B), A is out of the table of domains and its
\* event is out of the scheduler; every shell of A is still in the
\* containers, now under the domain id of B, and is a shell of B; every
\* particle of A is a particle of B; no shell carries the domain id of A,
\* and B has as many shells as particles.
C28_MergedIntoOther ==
    multis_merged =>
        \A i \in 1..Len(ret.info.merged) :
            /\ ret.info.merged[i].multi1.domain_id \notin DOMAIN domains
            /\ ret.info.merged[i].multi1.event_id \notin DOMAIN scheduler
            /\ events_of(ret.info.merged[i].multi1.domain_id) = {}
            /\ ret.info.merged[i].multi2.domain_id \in DOMAIN domains
            /\ \A x \in DOMAIN ret.info.merged[i].multi1.shell_list :
                  /\ x \in DOMAIN containers
                  /\ containers[x] =
                        [ret.info.merged[i].multi1.shell_list[x] EXCEPT
                            !.did = ret.info.merged[i].multi2.domain_id]
                  /\ x \in DOMAIN
                        domains[ret.info.merged[i].multi2.domain_id].shell_list
                  /\ domains[ret.info.merged[i].multi2.domain_id].shell_list[x]
                        = containers[x]
            /\ DOMAIN ret.info.merged[i].multi1.particles
                  \subseteq
                  DOMAIN domains[ret.info.merged[i].multi2.domain_id].particles
            /\ \A x \in DOMAIN containers :
                  containers[x].did # ret.info.merged[i].multi1.domain_id
            /\ Cardinality(
                 DOMAIN domains[ret.info.merged[i].multi2.domain_id].shell_list)
               = Cardinality(
                 DOMAIN domains[ret.info.merged[i].multi2.domain_id].particles)

\* A Multi of two particles was merged into a Multi that was being formed.
C28_Witness ==
    /\ multis_merged
    /\ Cardinality(DOMAIN ret.info.merged[1].multi1.particles) = 2
    /\ ret.info.merged[1].multi2.particles # << >>
    /\ Cardinality(DOMAIN domains[ret.info.merged[1].multi2.domain_id].particles)
          = 4

-----------------------------------------------------------------------------
\* C29: firing a Multi.

\* The last call was a step that fired the event of a Multi.
multi_fired == Returned("step") /\ ret.info.fired = "Multi"

\* The Multi as it was before the step, and after its own step().
fired_multi == ret.pre.domains[ret.info.did]

\* The Singles that hold particle pid.
singles_with(pid) ==
    {d \in DOMAIN domains : domains[d].kind = "Single" /\ domains[d].pid = pid}

\* The Multi that fired is gone with its shells and its event, and each of
\* its particles is in a Single made in this step.
broken_up ==
    /\ ret.info.did \notin DOMAIN domains
    /\ events_of(ret.info.did) = {}
    /\ \A x \in DOMAIN fired_multi.shell_list : x \notin DOMAIN containers
    /\ \A x \in DOMAIN containers : containers[x].did # ret.info.did
    /\ \A pid \in DOMAIN ret.info.stepped.particles :
          /\ Cardinality(singles_with(pid)) = 1
          /\ \A d \in singles_with(pid) :
                /\ d >= ret.pre.domain_id_generator
                /\ d # ret.info.did
                /\ domains[d].dt = 0
                /\ events_of(d) = {domains[d].event_id}
                /\ scheduler[domains[d].event_id].time = t

\* The Multi that fired is still there with the shells it had, and has one
\* event, made in this step, at t + multi.dt.
scheduled_again ==
    /\ ret.info.did \in DOMAIN domains
    /\ domains[ret.info.did].kind = "Multi"
    /\ DOMAIN domains[ret.info.did].shell_list = DOMAIN fired_multi.shell_list
    /\ \A x \in DOMAIN fired_multi.shell_list :
          /\ x \in DOMAIN containers
          /\ containers[x] = fired_multi.shell_list[x]
          /\ domains[ret.info.did].shell_list[x] = fired_multi.shell_list[x]
    /\ events_of(ret.info.did) = {domains[ret.info.did].event_id}
    /\ domains[ret.info.did].event_id >= ret.pre.event_id_generator
    /\ domains[ret.info.did].event_id \notin DOMAIN ret.pre.scheduler
    /\ scheduler[domains[ret.info.did].event_id].time
          = Plus(t, domains[ret.info.did].dt)

\* C29: after a Multi fires, if its step produced an event (a reaction or an
\* escape) the Multi and all its shells are removed and every one of its
\* particles is in a Single of its own with a new domain id, dt = 0 and one
\* event at the current time; if its step produced no event the Multi stays
\* with all its shells and gets exactly one new event at t + multi.dt.
C29_FireMulti ==
    multi_fired =>
        IF ret.info.stepped.last_event # "none" THEN broken_up
        ELSE scheduled_again

\* A Multi of three particles fired with an escape and was broken up into
\* three Singles.
C29_Witness ==
    /\ multi_fired
    /\ ret.info.stepped.last_event = "MULTI_ESCAPE"
    /\ Cardinality(DOMAIN ret.info.stepped.particles) = 3
    /\ broken_up

\* A Multi fired without an event and was scheduled again.
C29_ScheduledAgain ==
    /\ multi_fired
    /\ ret.info.stepped.last_event = "none"
    /\ scheduled_again

\* A Multi fired with a reaction and was broken up.
C29_Reacted ==
    /\ multi_fired
    /\ ret.info.stepped.last_event \in {"MULTI_UNIMOLECULAR_REACTION",
                                       "MULTI_BIMOLECULAR_REACTION"}
    /\ broken_up

-----------------------------------------------------------------------------
\* C30: bursting a Single.

\* The calls of burst_single of the last operation whose Single was inside
\* its time window: last_time <= t <= last_time + dt.
bursts_in_window ==
    {i \in 1..Len(ret.info.bursts) :
        /\ ret.info.bursts[i].t >= ret.info.bursts[i].before.last_time
        /\ ret.info.bursts[i].t <= Plus(ret.info.bursts[i].before.last_time,
                                        ret.info.bursts[i].before.dt)}

\* What burst_single has to leave behind, for one of its calls.
burst_kept_and_reset(b) ==
    /\ b.raised = "none"
    /\ b.after.kind = "Single"
    /\ b.after.domain_id = b.before.domain_id
    /\ b.after.shell_id = b.before.shell_id
    /\ b.after.event_id = b.before.event_id
    /\ b.after.pid = b.before.pid
    /\ b.particle = b.after.particle
    /\ distance(b.after.particle.pos, b.before.shell.pos)
          <= b.before.shell.radius - b.before.particle.radius
    /\ b.after.shell = [did |-> b.before.domain_id,
                        pos |-> b.after.particle.pos,
                        radius |-> b.before.particle.radius]
    /\ b.shells = (b.before.shell_id :> b.after.shell)
    /\ b.after.dt = 0
    /\ b.after.last_time = b.t
    /\ b.entries = (b.before.event_id :> b.t)
    /\ b.events_after = b.events_before

\* C30: bursting a Single at time t with last_time <= t <= last_time + dt
\* keeps its domain id, shell id and event id, moves the particle to a
\* position inside the old shell (at most old shell size - particle radius
\* from the old centre), replaces the shell by one of the particle's radius
\* centred on the new position, sets dt = 0 and last_time = t, and moves its
\* one scheduler entry to time t without adding another.
C30_BurstSingle ==
    \A i \in bursts_in_window : burst_kept_and_reset(ret.info.bursts[i])

\* The same for the Singles whose particle is at the centre of the shell, as
\* it is unless a rejected reaction left it where propagate_single put it.
C30_BurstCentredSingle ==
    \A i \in bursts_in_window :
        ret.info.bursts[i].before.particle.pos
              = ret.info.bursts[i].before.shell.pos
           => burst_kept_and_reset(ret.info.bursts[i])

\* A Single whose particle was not at the centre of its shell was burst
\* inside its time window, and the particle left the old shell.
C30_BurstOffCentre ==
    \E i \in bursts_in_window :
        /\ ret.info.bursts[i].before.particle.pos
              # ret.info.bursts[i].before.shell.pos
        /\ ret.info.bursts[i].raised = "AssertionError"
        /\ distance(ret.info.bursts[i].particle.pos,
                    ret.info.bursts[i].before.shell.pos)
              > ret.info.bursts[i].before.shell.radius
                  - ret.info.bursts[i].before.particle.radius

\* A Single with a shell larger than its particle was burst before its event
\* was due, and its particle moved.
C30_Witness ==
    \E i \in bursts_in_window :
        /\ burst_kept_and_reset(ret.info.bursts[i])
        /\ ret.info.bursts[i].before.shell.radius
              > ret.info.bursts[i].before.particle.radius
        /\ ret.info.bursts[i].t > ret.info.bursts[i].before.last_time
        /\ ret.info.bursts[i].t < Plus(ret.info.bursts[i].before.last_time,
                                       ret.info.bursts[i].before.dt)
        /\ ret.info.bursts[i].after.particle.pos
              # ret.info.bursts[i].before.particle.pos

\* A Single was burst at the very time it was made: it stays where it is.
C30_BurstAtOnce ==
    \E i \in bursts_in_window :
        /\ burst_kept_and_reset(ret.info.bursts[i])
        /\ ret.info.bursts[i].t = ret.info.bursts[i].before.last_time
        /\ ret.info.bursts[i].after.particle.pos
              = ret.info.bursts[i].before.particle.pos

-----------------------------------------------------------------------------
\* C31: bursting a Pair.

\* The bursts of a Pair of the last operation that were made inside the
\* Pair's time window.
pair_bursts_in_window ==
    {i \in 1..Len(ret.info.pair_bursts) :
        /\ ret.info.pair_bursts[i].t >= ret.info.pair_bursts[i].before.last_time
        /\ ret.info.pair_bursts[i].t
              <= Plus(ret.info.pair_bursts[i].before.last_time,
                      ret.info.pair_bursts[i].before.dt)}

\* The Single old of a Pair is back after the burst at time now, as left: same
\* ids, shell of the particle's radius around the particle, dt = 0 and one
\* event at now.
single_put_back(old, left, particle, now) ==
    /\ left.domain.kind = "Single"
    /\ left.domain.domain_id = old.domain_id
    /\ left.domain.shell_id = old.shell_id
    /\ left.domain.pid = old.pid
    /\ left.domain.particle = particle
    /\ left.domain.shell = [did |-> old.domain_id, pos |-> particle.pos,
                            radius |-> particle.radius]
    /\ left.shells = (old.shell_id :> left.domain.shell)
    /\ left.domain.dt = 0
    /\ left.entries = (left.domain.event_id :> now)

\* What the burst of a Pair has to leave behind, for one burst.
pair_burst_done(b) ==
    /\ b.raised = "none"
    /\ b.pair.domain.kind = "none"
    /\ DOMAIN b.pair.shells = {}
    /\ DOMAIN b.pair.entries = {}
    /\ single_put_back(b.before.single1, b.single1, b.particle1, b.t)
    /\ single_put_back(b.before.single2, b.single2, b.particle2, b.t)
    /\ b.before.single1.domain_id # b.before.single2.domain_id
    /\ b.before.single1.shell_id # b.before.single2.shell_id
    /\ b.single1.domain.event_id # b.single2.domain.event_id
    /\ distance(b.particle1.pos, b.particle2.pos)
          >= b.particle1.radius + b.particle2.radius
    /\ distance(b.before.shell.pos, b.particle1.pos) + b.particle1.radius
          <= b.before.shell.radius
    /\ distance(b.before.shell.pos, b.particle2.pos) + b.particle2.radius
          <= b.before.shell.radius

\* C31: bursting a Pair removes the Pair's domain, shell and scheduler event
\* and puts its two Singles back under the domain ids and shell ids they had
\* before the Pair was formed, each with a shell of its particle's radius,
\* dt = 0 and exactly one scheduler event at the current time; the two new
\* positions do not overlap and lie inside the Pair's old shell.
C31_BurstPair ==
    \A i \in pair_bursts_in_window : pair_burst_done(ret.info.pair_bursts[i])

\* A Pair was burst before its event was due and after some time had passed,
\* and its particles moved.
C31_Witness ==
    \E i \in pair_bursts_in_window :
        /\ pair_burst_done(ret.info.pair_bursts[i])
        /\ ret.info.pair_bursts[i].t > ret.info.pair_bursts[i].before.last_time
        /\ ret.info.pair_bursts[i].particle1.pos
              # ret.info.pair_bursts[i].before.single1.particle.pos

-----------------------------------------------------------------------------
\* C32: shells restored after a burst that formed nothing.

\* The last call was a step in which a Single fired, burst its intruders,
\* formed neither a Pair nor a Multi, and restored the shells.
shells_restored == Returned("step") /\ ret.info.restore.tried

\* The burst domains that were Singles when the restoring began.
burst_singles ==
    {d \in Range(ret.info.restore.burst) :
        /\ d \in DOMAIN ret.info.restore.domains
        /\ ret.info.restore.domains[d].kind = "Single"}

\* The intruders that were Multis when they were found.
intruding_multis ==
    {d \in Range(ret.info.intruders.list) :
        ret.info.intruders.domains[d].kind = "Multi"}

\* The shell of Single d reaches into no shell of another domain, unless it
\* is as small as a shell can be.
regrown(d) ==
    /\ d \in DOMAIN domains
    /\ domains[d].kind = "Single"
    /\ domains[d].shell.pos = ret.info.restore.domains[d].shell.pos
    /\ domains[d].shell_id = ret.info.restore.domains[d].shell_id
    /\ domains[d].shell_id \in DOMAIN containers
    /\ containers[domains[d].shell_id] = domains[d].shell
    /\ domains[d].shell.radius >= domains[d].particle.radius
    /\ \/ domains[d].shell.radius = domains[d].particle.radius
       \/ \A x \in DOMAIN containers :
             containers[x].did # d =>
                shell_distance(containers[x], domains[d].shell.pos)
                   >= domains[d].shell.radius

\* Single d has the event it had, and no other, at t + dt.
event_updated(d) ==
    /\ domains[d].event_id = ret.info.restore.domains[d].event_id
    /\ events_of(d) = {domains[d].event_id}
    /\ scheduler[domains[d].event_id].time = Plus(t, domains[d].dt)

\* The Single that fired has one event, which is new, at t + dt.
fired_rescheduled ==
    /\ ret.info.restore.single \in DOMAIN domains
    /\ events_of(ret.info.restore.single)
          = {domains[ret.info.restore.single].event_id}
    /\ domains[ret.info.restore.single].event_id
          \notin DOMAIN ret.info.restore.scheduler
    /\ domains[ret.info.restore.single].event_id
          \notin DOMAIN ret.pre.scheduler
    /\ scheduler[domains[ret.info.restore.single].event_id].time
          = Plus(t, domains[ret.info.restore.single].dt)
    /\ DOMAIN scheduler
          = DOMAIN ret.info.restore.scheduler
            \cup {domains[ret.info.restore.single].event_id}

\* Multi d is as it was when the intruders were found: domain, shells and
\* events.
multi_untouched(d) ==
    /\ d \in DOMAIN domains
    /\ domains[d] = ret.info.intruders.domains[d]
    /\ \A x \in DOMAIN ret.info.intruders.domains[d].shell_list :
          /\ x \in DOMAIN containers
          /\ containers[x] = ret.info.intruders.domains[d].shell_list[x]
    /\ {x \in DOMAIN containers : containers[x].did = d}
          = DOMAIN ret.info.intruders.domains[d].shell_list
    /\ events_of(d) = {e \in DOMAIN ret.info.intruders.scheduler :
                          ret.info.intruders.scheduler[e].data = d}
    /\ \A e \in events_of(d) : scheduler[e] = ret.info.intruders.scheduler[e]

\* C32: when the escape of a Single finds intruders but neither a Pair nor a
\* Multi is formed, every burst neighbour that is a Single has its shell grown
\* again against its closest domain and its existing scheduler entry moved to
\* t + dt (one entry per neighbour, none added or lost), the Single that fired
\* gets exactly one new entry, and the Multis among the intruders keep their
\* shells and events.
C32_ShellsRestored ==
    shells_restored =>
        /\ \A d \in burst_singles : regrown(d) /\ event_updated(d)
        /\ fired_rescheduled
        /\ \A d \in intruding_multis : multi_untouched(d)

\* A burst Single got a shell larger than its particle and an event later
\* than now.
C32_Witness ==
    /\ shells_restored
    /\ \E d \in burst_singles :
          /\ regrown(d) /\ event_updated(d)
          /\ domains[d].shell.radius > domains[d].particle.radius
          /\ domains[d].dt > 0
    /\ fired_rescheduled

\* A Multi was among the intruders and was left as it was.
C32_MultiUntouched ==
    /\ shells_restored
    /\ \E d \in intruding_multis : multi_untouched(d)
    /\ fired_rescheduled

\* Two Singles of a burst Pair had their shells restored.
C32_PairBurst ==
    /\ shells_restored
    /\ ret.info.pair_bursts # << >>
    /\ Cardinality(burst_singles) >= 2
    /\ \A d \in burst_singles : regrown(d) /\ event_updated(d)

-----------------------------------------------------------------------------
\* C33: a two-product reaction with dissociation_retry_moves = 0.

\* The last call was a step in which a Single fired a reaction with two
\* products while no retry move was allowed.
two_products_no_retry ==
    /\ ret.op = "step"
    /\ ret.info.fired = "Single"
    /\ ret.info.event_type = "SINGLE_REACTION"
    /\ ret.info.products = 2
    /\ dissociation_retry_moves = 0

-----------------------------------------------------------------------------
\* C34: the placement of two products comes to an end.

\* The last call was a step in which a Single fired a reaction with two
\* products.
two_products_fired ==
    /\ ret.op = "step"
    /\ ret.info.fired = "Single"
    /\ ret.info.event_type = "SINGLE_REACTION"
    /\ ret.info.products = 2

\* The products of the last reaction: the particles made in the last call.
new_products == (DOMAIN particles) \ DOMAIN ret.pre.particles

\* The retry loop of the last reaction was left: with the products placed at
\* least the sum of their radii apart, or with NoSpace and the move rejected.
placement_ended ==
    /\ ret.status = "ok"
    /\ \/ /\ ret.info.nospace
          /\ new_products = {}
       \/ /\ ~ ret.info.nospace
          /\ ret.info.attempts >= 1
          /\ Cardinality(new_products) = 2
          /\ \A p \in new_products : \A q \in new_products :
                p # q => distance(particles[p].pos, particles[q].pos)
                            >= particles[p].radius + particles[q].radius

\* C34: every placement attempt of a reaction with two products comes to an
\* end for every pair of diffusion coefficients of the products, D1 = D2 = 0
\* included: the loop that stretches the separation until the products are
\* at least particle_radius1 + particle_radius2 apart is always left.
C34_PlacementEnds == two_products_fired => placement_ended

\* Two products of which at least one diffuses are placed, or the move is
\* rejected.
C34_EndsWhenOneDiffuses ==
    (two_products_fired /\ ret.err # "ZeroDivisionError") => placement_ended

\* Two products of which one does not diffuse were placed.
C34_OneStill ==
    /\ two_products_fired
    /\ placement_ended
    /\ \E p \in new_products : particles[p].D = 0
    /\ \E p \in new_products : particles[p].D > 0

\* A reaction whose two products do not diffuse ended in a division by zero.
C34_BothStill ==
    /\ two_products_fired
    /\ ret.err = "ZeroDivisionError"

-----------------------------------------------------------------------------
\* C35: shells are resized by replacement.

\* The Singles and Pairs of the domain table.
singles_and_pairs ==
    {d \in DOMAIN domains : domains[d].kind \in {"Single", "Pair"}}

\* The shell held by domain d is the one the containers hold under its shell
\* id, and it is tagged with the domain's id.
shell_in_container(d) ==
    /\ domains[d].shell_id \in DOMAIN containers
    /\ containers[domains[d].shell_id] = domains[d].shell
    /\ domains[d].shell.did = d

\* C35: shells of Singles and Pairs are resized only by replacement, with the
\* new shell stored in the domain and written into the container under the
\* same shell id, so at the end of every operation the shape held by every
\* Single and Pair of the domain table is the shape the container holds under
\* its shell id.
C35_ShellsMatchContainers ==
    ret.status = "ok" => \A d \in singles_and_pairs : shell_in_container(d)

\* A step gave a Single a shell larger than its particle, and a Pair holds
\* a shell of its own.
C35_Witness ==
    /\ Returned("step")
    /\ \A d \in singles_and_pairs : shell_in_container(d)
    /\ \E d \in singles_and_pairs :
          /\ domains[d].kind = "Single"
          /\ d \in DOMAIN ret.pre.domains
          /\ ret.pre.domains[d].kind = "Single"
          /\ domains[d].shell.radius > ret.pre.domains[d].shell.radius
          /\ domains[d].shell_id = ret.pre.domains[d].shell_id
    /\ \E d \in singles_and_pairs : domains[d].kind = "Pair"

-----------------------------------------------------------------------------
\* C36: time does not go backwards.

\* The next call is a step or a stop.
step_or_stop_next == ncalls' = ncalls + 1 /\ ret'.op \in {"step", "stop"}

\* After the next call no event of the scheduler is earlier than the time of
\* the simulator, and the time step is not negative after a step.
time_in_order_next ==
    /\ \A e \in DOMAIN scheduler' : scheduler'[e].time >= t'
    /\ ret'.op = "step" => dt' >= 0

\* C36: simulation time never goes backwards: over any sequence of calls of
\* step() and stop() self.t does not decrease, every event in the scheduler
\* has a time >= self.t, and self.dt >= 0 after every step.
C36_TimeMonotone ==
    [][step_or_stop_next =>
          /\ t' >= t
          /\ ret'.status = "ok" => time_in_order_next]_vars

\* A step moved the time forward, with events left in the scheduler.
C36_Witness ==
    /\ Returned("step")
    /\ t > ret.pre.t
    /\ dt > 0
    /\ DOMAIN scheduler # {}
    /\ \A e \in DOMAIN scheduler : scheduler[e].time >= t

\* A stop moved the time forward to a time before the next event.
C36_Stopped ==
    /\ Returned("stop")
    /\ t > ret.pre.t
    /\ \A e \in DOMAIN scheduler : scheduler[e].time >= t

-----------------------------------------------------------------------------
\* C37: the event of a Single is at last_time + dt.

\* The events of the scheduler that belong to a Single of the domain table.
single_events ==
    {e \in DOMAIN scheduler :
        /\ scheduler[e].data \in DOMAIN domains
        /\ domains[scheduler[e].data].kind = "Single"}

\* Every event of a Single is at the Single's last_time + dt.
event_times_match ==
    \A e \in single_events :
        scheduler[e].time = Plus(domains[scheduler[e].data].last_time,
                                 domains[scheduler[e].data].dt)

\* C37: for every Single in the scheduler the time of its event is
\* single.last_time + single.dt; so when its event fires self.t is
\* last_time + dt, and whenever it is burst last_time <= self.t <=
\* last_time + dt: the timing assertions of fire_single, burst_single and
\* burst_pair fail in no reachable state.
C37_TimingAssertionsHold ==
    /\ ret.status = "ok" => event_times_match
    /\ ret.info.timing = "none"

\* After every call that returns, every event of a Single is at the Single's
\* last_time + dt.
C37_EventTimesMatch == ret.status = "ok" => event_times_match

\* A timing assertion fails only at an infinite time or in a stop that
\* follows a reset.
C37_FailsOnlyAtInfinityOrAfterReset ==
    ret.info.timing # "none" =>
        \/ ret.op = "step" /\ ret.info.timing = "fire_single" /\ t >= Inf
        \/ ret.op = "stop" /\ ret.info.timing \in {"burst_single", "burst_pair"}
              /\ ret.pre.is_dirty

\* The event of a Single at an infinite time was popped and the assertion of
\* fire_single failed, in a run of steps only.
C37_FiredAtInfinity ==
    /\ ret.op = "step"
    /\ ret.info.timing = "fire_single"
    /\ ~ ret.pre.is_dirty
    /\ ret.pre.t < Inf
    /\ t >= Inf

\* Events of Singles with dt > 0 are in the scheduler at last_time + dt.
C37_Scheduled ==
    /\ Returned("step")
    /\ event_times_match
    /\ \E e \in single_events : domains[scheduler[e].data].dt > 0
                                   /\ domains[scheduler[e].data].last_time > 0

-----------------------------------------------------------------------------
\* C38: a step that fails on an unsupported rule.

\* The last call was a step that failed on a rule with a number of products
\* that is not supported: three or more for a single reaction, two or more
\* for a pair reaction.
unsupported_rule_failed ==
    /\ ret.op = "step"
    /\ \/ ret.err = "RuntimeError" /\ ret.info.products >= 3
       \/ ret.err = "NotImplementedError"

\* The particles held by domain d.
domain_pids(d) ==
    CASE domains[d].kind = "Single" -> {domains[d].pid}
      [] domains[d].kind = "Pair" ->
            {domains[d].single1.pid, domains[d].single2.pid}
      [] OTHER -> DOMAIN domains[d].particles

\* Every particle of the world is held by a domain of the table, and every
\* domain holds particles of the world only.
world_and_domains_consistent ==
    /\ \A pid \in DOMAIN particles :
          \E d \in DOMAIN domains : pid \in domain_pids(d)
    /\ \A d \in DOMAIN domains : domain_pids(d) \subseteq DOMAIN particles

\* C38: a step that fails on an unsupported rule has no partial effects: the
\* error is raised before any particle is removed from the world and before
\* any domain is removed from the domain table, so the world and the domain
\* table are still consistent.
C38_NoPartialEffects ==
    unsupported_rule_failed =>
        /\ DOMAIN ret.pre.particles \subseteq DOMAIN particles
        /\ world_and_domains_consistent

\* A single reaction with three products failed after the domain of the
\* reactant was removed: its particle is in the world without a domain.
C38_SingleLeftWithoutDomain ==
    /\ unsupported_rule_failed
    /\ ret.err = "RuntimeError"
    /\ DOMAIN ret.pre.particles \subseteq DOMAIN particles
    /\ \E pid \in DOMAIN particles :
          \A d \in DOMAIN domains : pid \notin domain_pids(d)

\* A pair reaction with two products failed after both particles were
\* removed from the world: the Pair is in the domain table without them.
C38_PairLeftWithoutParticles ==
    /\ unsupported_rule_failed
    /\ ret.err = "NotImplementedError"
    /\ \E d \in DOMAIN domains :
          /\ domains[d].kind = "Pair"
          /\ domain_pids(d) \cap DOMAIN particles = {}

-----------------------------------------------------------------------------
\* C39: reset and the initialize of the next step.

\* The simulator as reset() leaves it.
is_reset_state ==
    /\ t = 0 /\ dt = 0 /\ step_counter = 0 /\ zero_steps = 0
    /\ rejected_moves = 0 /\ reaction_events = 0 /\ is_dirty

\* The last call was a step that came right after a reset.
step_after_reset == ret.op = "step" /\ ret.last.op = "reset"

\* What initialize() left in the last step, rebuilt from the particles: one
\* Single and one event per particle, one shell per Single, and nothing that
\* was there before the step.
rebuilt(i) ==
    /\ i.done
    /\ Cardinality(DOMAIN i.domains) = Cardinality(DOMAIN i.particles)
    /\ Cardinality(DOMAIN i.scheduler) = Cardinality(DOMAIN i.particles)
    /\ Cardinality(DOMAIN i.containers) = Cardinality(DOMAIN i.particles)
    /\ \A d \in DOMAIN i.domains :
          /\ i.domains[d].kind = "Single"
          /\ i.domains[d].pid \in DOMAIN i.particles
          /\ i.domains[d].particle = i.particles[i.domains[d].pid]
          /\ d \notin DOMAIN ret.pre.domains
          /\ i.domains[d].shell_id \notin DOMAIN ret.pre.containers
          /\ i.domains[d].event_id \notin DOMAIN ret.pre.scheduler
          /\ {e \in DOMAIN i.scheduler : i.scheduler[e].data = d}
                = {i.domains[d].event_id}
          /\ {x \in DOMAIN i.containers : i.containers[x].did = d}
                = {i.domains[d].shell_id}
    /\ \A pid \in DOMAIN i.particles :
          Cardinality({d \in DOMAIN i.domains : i.domains[d].pid = pid}) = 1
    /\ DOMAIN i.domains \cap DOMAIN ret.pre.domains = {}
    /\ DOMAIN i.scheduler \cap DOMAIN ret.pre.scheduler = {}

\* C39: reset() sets the time and all counters to zero and marks the
\* simulator dirty; the next step() first runs initialize(), which clears
\* the scheduler, the shell containers and the domain table and creates
\* exactly one Single with one scheduler event per particle of the world, so
\* that after initialize() the numbers of domains, of scheduler entries and
\* of particles are equal, every domain is a Single, and no domain or event
\* from before the reset is left.
C39_ResetThenInitialize ==
    /\ Returned("reset") => is_reset_state
    /\ step_after_reset => rebuilt(ret.info.initialized)

\* A step after a reset rebuilt the domains of a world in which a Pair or a
\* Multi and events had been before.
C39_Witness ==
    /\ step_after_reset
    /\ rebuilt(ret.info.initialized)
    /\ \E d \in DOMAIN ret.pre.domains : ret.pre.domains[d].kind # "Single"
    /\ DOMAIN ret.pre.scheduler # {}
    /\ Cardinality(DOMAIN ret.info.initialized.particles) >= 2

\* A reset came after time had passed and steps had been counted.
C39_Reset ==
    /\ Returned("reset")
    /\ is_reset_state
    /\ ret.pre.t > 0
    /\ ret.pre.step_counter > 0

=============================================================================
